---- MODULE Spec2Model ----
(***************************************************************************)
(* Outage-schedule watcher bot: the change-detection / notification state  *)
(* machine of checkOneChat, the serialization queue runStateOp, the chat   *)
(* handlers that feed it and the self-rescheduling poll.                   *)
(*                                                                         *)
(* Texts are sequences of lines.  A line is a record                       *)
(*   m   : "blank" (empty or whitespace only), "none" (free text),         *)
(*         "start" (the group marker "Група <id>." opens the line),        *)
(*         "mid"   (the marker occurs later in the line)                   *)
(*   id  : the raw group token written after the marker                    *)
(*   v   : the rest of the line (the interval text)                        *)
(*   pad : the line carries leading or trailing white space                *)
(* Time is counted in calendar days.                                       *)
(***************************************************************************)
EXTENDS Integers, Sequences, FiniteSets, TLC

VARIABLES users, disk, units, handlers, sched, now, lastCheck, prevCheck

vars == <<users, disk, units, handlers, sched, now, lastCheck, prevCheck>>

\* An optional value (a JS value that may be undefined): <<>> or <<x>>.
None == <<>>
Some(x) == <<x>>
\* An undefined timestamp, and an undefined string field.
NoTime == -1
NoStr == ""

Min(a, b) == IF a < b THEN a ELSE b

(***************************************************************************)
(* Bounds of the model.                                                    *)
(***************************************************************************)
MaxUnits == 3
MaxHandlers == 2
MaxDay == 1
DaysPerMonth == 2

(***************************************************************************)
(* Subgroup identifiers.                                                   *)
(***************************************************************************)
POSSIBLE_GROUPS ==
  << <<1, 1>>, <<1, 2>>, <<2, 1>>, <<2, 2>>, <<3, 1>>, <<3, 2>>,
     <<4, 1>>, <<4, 2>>, <<5, 1>>, <<5, 2>>, <<6, 1>>, <<6, 2>> >>

Range(s) == {s[i] : i \in DOMAIN s}

\* A raw group token: digits, separator, digits; z: written with leading zeros.
Tok(maj, min, sep, z) == [maj |-> maj, min |-> min, sep |-> sep, z |-> z]
NoTok == Tok(0, 0, "", FALSE)

\* `${Number(m[1])}.${Number(m[2])}`: separator and leading zeros are dropped.
normalizeGroupId(raw) ==
  IF raw.sep \in {".", ","} THEN <<raw.maj, raw.min>> ELSE None

(***************************************************************************)
(* Lines and texts.                                                        *)
(***************************************************************************)
Line(m, id, v, pad) == [m |-> m, id |-> id, v |-> v, pad |-> pad]
Blank == Line("blank", NoTok, "", FALSE)
Hdr(v) == Line("none", NoTok, v, FALSE)
Grp(g, v) == Line("start", Tok(g[1], g[2], ".", FALSE), v, FALSE)

\* String.prototype.trim on one line.
TrimLine(l) == IF l.m = "blank" THEN Blank ELSE [l EXCEPT !.pad = FALSE]

NonBlank(l) == l.m # "blank"

normalizeMultilineText(raw) ==
  SelectSeq([i \in DOMAIN raw |-> TrimLine(raw[i])], NonBlank)

\* String.prototype.trim on a joined text: blank lines at both ends go.
RECURSIVE DropLeadingBlank(_)
DropLeadingBlank(t) ==
  IF t # <<>> /\ Head(t).m = "blank" THEN DropLeadingBlank(Tail(t)) ELSE t

RECURSIVE DropTrailingBlank(_)
DropTrailingBlank(t) ==
  IF t # <<>> /\ t[Len(t)].m = "blank"
  THEN DropTrailingBlank(SubSeq(t, 1, Len(t) - 1))
  ELSE t

TrimText(t) == DropTrailingBlank(DropLeadingBlank(t))

\* /^Група\s+\d+[.,]\d+\./i
GroupLineRe(l) == l.m = "start" /\ ~l.pad /\ l.id.sep \in {".", ","}

\* /Група\s+(\d+\.\d+)\./i
ScheduleLineRe(l) == l.m \in {"start", "mid"} /\ l.id.sep = "."

extractGroupLinesOnly(text) ==
  SelectSeq(normalizeMultilineText(text), GroupLineRe)

\* The map of parseGroupSchedulesFromText, read at key g: the last matching
\* line of the text whose normalized id is g.
RECURSIVE LastLineOf(_, _, _)
LastLineOf(lines, g, found) ==
  IF lines = <<>> THEN found
  ELSE LET l == Head(lines)
           hit == ScheduleLineRe(l) /\ normalizeGroupId(l.id) = g
       IN LastLineOf(Tail(lines), g, IF hit THEN Some(l) ELSE found)

parseGroupSchedulesFromText(text, g) ==
  LastLineOf(normalizeMultilineText(text), g, None)

\* .split('\n').slice(0, 2).filter((l) => l.length > 0)
HeaderLines(text) ==
  LET n == normalizeMultilineText(text)
  IN SubSeq(n, 1, Min(2, Len(n)))

NotFoundToday == "not found in this update"
NotFoundTomorrow == "not found in tomorrow's schedule"

SelectedLines(groups, text, notFound) ==
  [i \in DOMAIN groups |->
     LET l == parseGroupSchedulesFromText(text, groups[i])
     IN IF l = None THEN Grp(groups[i], notFound) ELSE l[1]]

\* [...headerLines, '', ...selectedLines].join('\n').trim()
WatchedText(headerLines, selectedLines) ==
  TrimText(headerLines \o <<Blank>> \o selectedLines)

\* selectedLines.join('\n').trim()
WatchedGroupsText(selectedLines) == TrimText(selectedLines)

\* An optional text used as a condition: undefined and '' are falsy.
Truthy(s) == s # None /\ s[1] # <<>>

(***************************************************************************)
(* UserState and BotState.                                                 *)
(***************************************************************************)
\* ensureUser: { watching: false }, every other field undefined.
NewUser ==
  [groups |-> None, pendingStep |-> NoStr, watching |-> FALSE,
   lastLoeCheckedAt |-> NoTime, lastLoeNotifiedAt |-> NoTime,
   lastLoeWatchedText |-> None, lastLoeError |-> NoStr,
   lastLoeTomorrowCheckedAt |-> NoTime, lastLoeTomorrowNotifiedAt |-> NoTime,
   lastLoeTomorrowWatchedText |-> None, lastLoeTomorrowStatus |-> NoStr,
   lastLoeTomorrowError |-> NoStr]

\* user.groups ?? []
GroupsOf(u) == IF u.groups = None THEN <<>> ELSE u.groups[1]

\* The record created with watching switched on.
EnsureWatching(us, chatId) ==
  IF chatId \in DOMAIN us THEN us
  ELSE [c \in DOMAIN us \cup {chatId} |->
          IF c = chatId THEN [NewUser EXCEPT !.watching = TRUE] ELSE us[c]]

ensureUser(us, chatId) ==
  IF chatId \in DOMAIN us THEN us
  ELSE [c \in DOMAIN us \cup {chatId} |-> IF c = chatId THEN NewUser ELSE us[c]]

\* One entry of normalizeStateShape: a field of the wrong shape is dropped.
NormalizeUser(u) ==
  [u EXCEPT
     !.pendingStep =
        IF @ \in {"groups", "groups_add", "groups_remove"} THEN @ ELSE NoStr,
     !.lastLoeTomorrowStatus =
        IF @ \in {"missing", "present"} THEN @ ELSE NoStr]

normalizeStateShape(us) == [c \in DOMAIN us |-> NormalizeUser(us[c])]

\* The store file: absent, or the document of the last completed write.
NoFile == [exists |-> FALSE, doc |-> <<>>]
FileOf(us) == [exists |-> TRUE, doc |-> normalizeStateShape(us)]

\* new Date(t).getDate(): the day of the month.
getDate(t) == (t % DaysPerMonth) + 1

(***************************************************************************)
(* checkOneChat.  The body is a straight-line program fixed by the record, *)
(* the fetched texts and forceCheck; it is listed as a sequence of steps   *)
(*   [t |-> "set", upd]  assignments to fields of the record               *)
(*   [t |-> "write"]     await writeStateToDisk(state)                     *)
(*   [t |-> "send", kind, text]  await bot.telegram.sendMessage(...)       *)
(* and then run against the outcome of each await.                         *)
(***************************************************************************)
SetOp(upd) == [t |-> "set", upd |-> upd, kind |-> NoStr, text |-> <<>>]
\* The await of writeStateToDisk left out: a step that assigns nothing.
WriteLeftOut == [t |-> "set", upd |-> <<>>, kind |-> NoStr, text |-> <<>>]

WriteOp == [t |-> "write", upd |-> <<>>, kind |-> NoStr, text |-> <<>>]
SendOp(kind, text) == [t |-> "send", upd |-> <<>>, kind |-> kind, text |-> text]

\* upd is a sequence of <<field, value>> pairs.
RECURSIVE Assign(_, _)
Assign(u, upd) ==
  IF upd = <<>> THEN u
  ELSE Assign([f \in DOMAIN u |-> IF f = Head(upd)[1] THEN Head(upd)[2] ELSE u[f]],
              Tail(upd))

\* A fetch result: ok = FALSE is a transport error, a non-2xx answer or a
\* response without menuItems; today/tomorrow are optional texts.
Fetched(ok, today, tomorrow) == [ok |-> ok, today |-> today, tomorrow |-> tomorrow]

\* user.lastLoeNotifiedAt ? getDate(then) !== getDate(now) : false
IsNotifiedYesterday(u, t) ==
  IF u.lastLoeNotifiedAt # NoTime
  THEN getDate(u.lastLoeNotifiedAt) # getDate(t)
  ELSE FALSE

\* text ? extractGroupLinesOnly(text) : undefined
PrevGroupsOnly(stored) ==
  IF Truthy(stored) THEN Some(extractGroupLinesOnly(stored[1])) ELSE None

\* The first observation announced like a later one.
FirstSeenAnnounced(forceCheck) == TRUE

\* if (forceCheck) in the first-observation branch.
FirstSeenNotifies(forceCheck) == forceCheck

\* The forced check treated like a background one.
ChangedOrRollover(prev, watchedGroupsText, isNotifiedYesterday, forceCheck) ==
  prev # Some(watchedGroupsText) \/ isNotifiedYesterday

\* else if (prev !== watchedGroupsText || isNotifiedYesterday || forceCheck)
TodayChanged(prev, watchedGroupsText, isNotifiedYesterday, forceCheck) ==
  prev # Some(watchedGroupsText) \/ isNotifiedYesterday \/ forceCheck

TodayTitle(isNotifiedYesterday, forceCheck) ==
  IF forceCheck THEN "checked"
  ELSE IF isNotifiedYesterday THEN "today" ELSE "today_changed"

TodayOps(u, text, forceCheck, t) ==
  LET selectedLines == SelectedLines(GroupsOf(u), text, NotFoundToday)
      watchedText == WatchedText(HeaderLines(text), selectedLines)
      watchedGroupsText == WatchedGroupsText(selectedLines)
      prev == PrevGroupsOnly(u.lastLoeWatchedText)
      isNotifiedYesterday == IsNotifiedYesterday(u, t)
      head == <<SetOp(<< <<"lastLoeCheckedAt", t>>, <<"lastLoeError", NoStr>> >>)>>
  IN IF ~Truthy(prev)
     THEN head \o <<SetOp(<< <<"lastLoeWatchedText", Some(watchedText)>> >>), WriteOp>>
          \o (IF FirstSeenNotifies(forceCheck)
              THEN <<SetOp(<< <<"lastLoeNotifiedAt", t>> >>), WriteOp,
                     SendOp("checked", watchedText)>>
              ELSE <<>>)
     ELSE IF TodayChanged(prev, watchedGroupsText, isNotifiedYesterday, forceCheck)
     THEN head \o <<SetOp(<< <<"lastLoeWatchedText", Some(watchedText)>>,
                            <<"lastLoeNotifiedAt", t>> >>),
                    WriteOp,
                    SendOp(TodayTitle(isNotifiedYesterday, forceCheck), watchedText)>>
     ELSE head

\* The comparison of what the two arrays hold.
ArraysDifferByContent(a, b) == a # b

\* a !== b on two arrays compares the objects, not their elements; the two
\* header arrays are built by separate split/slice/filter chains.
ArraysDiffer(a, b) == TRUE

\* tomorrowPrevGroupsOnly !== tomorrowWatchedGroupsText
\*   && tomorrowHeaderLinesPrev !== tomorrowHeaderLinesCurrent
TomorrowChanged(prevGroupsOnly, watchedGroupsText, headerPrev, headerCurrent) ==
  prevGroupsOnly # Some(watchedGroupsText) /\ ArraysDiffer(headerPrev, headerCurrent)

\* const appeared = user.lastLoeTomorrowStatus !== 'present'
Appeared(u) == u.lastLoeTomorrowStatus # "present"

\* The tomorrow part announcing every published schedule, with or without
\* a line for the groups.
TomorrowAnnouncesAll(u, tomorrow, t) ==
  LET head == <<SetOp(<< <<"lastLoeTomorrowCheckedAt", t>>,
                         <<"lastLoeTomorrowError", NoStr>> >>)>>
  IN IF tomorrow = None
     THEN head \o <<SetOp(<< <<"lastLoeTomorrowStatus", "missing">> >>), WriteOp>>
     ELSE LET watchedText ==
                WatchedText(HeaderLines(tomorrow[1]),
                            SelectedLines(GroupsOf(u), tomorrow[1], NotFoundTomorrow))
          IN head \o <<SetOp(<< <<"lastLoeTomorrowStatus", "present">>,
                                <<"lastLoeTomorrowWatchedText", Some(watchedText)>>,
                                <<"lastLoeTomorrowNotifiedAt", t>> >>),
                       WriteOp, SendOp("tomorrow_appeared", watchedText)>>

\* The tomorrow part that stops after its first two assignments.
TomorrowHeadOnly(u, tomorrow, t) ==
  <<SetOp(<< <<"lastLoeTomorrowCheckedAt", t>>, <<"lastLoeTomorrowError", NoStr>> >>)>>

TomorrowOps(u, tomorrow, t) ==
  LET head == <<SetOp(<< <<"lastLoeTomorrowCheckedAt", t>>,
                         <<"lastLoeTomorrowError", NoStr>> >>)>>
  IN IF tomorrow = None
     THEN head \o <<SetOp(<< <<"lastLoeTomorrowStatus", "missing">> >>), WriteOp>>
     ELSE
       LET text == tomorrow[1]
           groups == GroupsOf(u)
           selectedLines == SelectedLines(groups, text, NotFoundTomorrow)
           hasAny == \E i \in DOMAIN groups :
                        parseGroupSchedulesFromText(text, groups[i]) # None
           stored == u.lastLoeTomorrowWatchedText
           headerPrev == HeaderLines(IF stored = None THEN <<>> ELSE stored[1])
           headerCurrent == HeaderLines(text)
           watchedText == WatchedText(HeaderLines(text), selectedLines)
           watchedGroupsText == WatchedGroupsText(selectedLines)
           prevGroupsOnly == PrevGroupsOnly(stored)
           present == SetOp(<< <<"lastLoeTomorrowStatus", "present">> >>)
       IN IF ~hasAny
          THEN head \o <<present,
                         SetOp(<< <<"lastLoeTomorrowWatchedText", Some(watchedText)>> >>),
                         WriteOp>>
          ELSE IF Appeared(u)
          THEN head \o <<present,
                         SetOp(<< <<"lastLoeTomorrowWatchedText", Some(watchedText)>>,
                                  <<"lastLoeTomorrowNotifiedAt", t>> >>),
                         WriteOp,
                         SendOp("tomorrow_appeared", watchedText)>>
          ELSE IF TomorrowChanged(prevGroupsOnly, watchedGroupsText,
                                  headerPrev, headerCurrent)
          THEN head \o <<present,
                         SetOp(<< <<"lastLoeTomorrowWatchedText", Some(watchedText)>>,
                                  <<"lastLoeTomorrowNotifiedAt", t>> >>),
                         WriteOp,
                         SendOp("tomorrow_changed", watchedText)>>
          ELSE head \o <<present, WriteOp>>

\* The forced check reporting tomorrow's schedule as it reports today's:
\* as one that has just appeared.
TryOpsReportsTomorrow(u, up, forceCheck, t) ==
  IF ~up.ok \/ up.today = None THEN <<>>
  ELSE TodayOps(u, up.today[1], forceCheck, t)
       \o TomorrowOps(IF forceCheck THEN [u EXCEPT !.lastLoeTomorrowStatus = "missing"]
                      ELSE u,
                      up.tomorrow, t)

\* The steps of the try block; a failed fetch or a missing "Today" throws
\* before any step.
TryOps(u, up, forceCheck, t) ==
  IF ~up.ok \/ up.today = None THEN <<>>
  ELSE TodayOps(u, up.today[1], forceCheck, t) \o TomorrowOps(u, up.tomorrow, t)

\* The message of the error the try block throws first.
FetchError(up) ==
  IF ~up.ok THEN "fetch failed"
  ELSE IF up.today = None THEN "no Today item"
  ELSE NoStr

\* The steps of the catch block.
CatchOps(message, forceCheck, t) ==
  <<SetOp(<< <<"lastLoeCheckedAt", t>>, <<"lastLoeError", message>> >>), WriteOp>>
  \o (IF forceCheck THEN <<SendOp("error", <<>>)>> ELSE <<>>)

\* The steps taken when no group is selected (outside the try block).
NoGroupsOps(forceCheck, t) ==
  <<SetOp(<< <<"lastLoeError", "no groups">>, <<"lastLoeCheckedAt", t>> >>), WriteOp>>
  \o (IF forceCheck THEN <<SendOp("no_groups", <<>>)>> ELSE <<>>)

\* What each await of one checkOneChat call does: the w-th writeStateToDisk
\* of the body fails, the s-th sendMessage of the body fails (0: none), and
\* c names the await of the catch block that fails ("ok": none).
Plan(w, s, c) == [w |-> w, s |-> s, c |-> c]
NoFault == Plan(0, 0, "ok")

Acc(u, file, msgs, nw, ns, err) ==
  [u |-> u, file |-> file, msgs |-> msgs, nw |-> nw, ns |-> ns, err |-> err]

Msg(kind, text, ok) == [kind |-> kind, text |-> text, ok |-> ok]

\* Runs the steps in order until one throws; err is the thrown message.
RECURSIVE RunOps(_, _, _, _, _)
RunOps(ops, acc, plan, us, chatId) ==
  IF ops = <<>> \/ acc.err # NoStr THEN acc
  ELSE
    LET op == Head(ops)
        next ==
          CASE op.t = "set" -> [acc EXCEPT !.u = Assign(acc.u, op.upd)]
            [] op.t = "write" ->
                 IF plan.w = acc.nw + 1
                 THEN [acc EXCEPT !.nw = @ + 1, !.err = "write failed"]
                 ELSE [acc EXCEPT !.nw = @ + 1,
                                  !.file = FileOf([us EXCEPT ![chatId] = acc.u])]
            [] op.t = "send" ->
                 IF plan.s = acc.ns + 1
                 THEN [acc EXCEPT !.ns = @ + 1, !.err = "send failed",
                                  !.msgs = Append(@, Msg(op.kind, op.text, FALSE))]
                 ELSE [acc EXCEPT !.ns = @ + 1,
                                  !.msgs = Append(@, Msg(op.kind, op.text, TRUE))]
    IN RunOps(Tail(ops), next, plan, us, chatId)

CatchPlan(plan) ==
  Plan(IF plan.c = "write" THEN 1 ELSE 0, IF plan.c = "send" THEN 1 ELSE 0, "ok")

\* fault: the message of the first error thrown inside the call (NoStr: none).
Outcome(acc, skipped, fault, threw) ==
  [u |-> acc.u, file |-> acc.file, msgs |-> acc.msgs,
   skipped |-> skipped, fault |-> fault, threw |-> threw]

\* checkOneChat(chatId, user, forceCheck) on state us with the store file
\* `file`, the fetch answering `up`, at time t.
checkOneChat(us, file, chatId, forceCheck, up, t, plan) ==
  LET u == us[chatId]
      acc0 == Acc(u, file, <<>>, 0, 0, NoStr)
  IN IF ~u.watching /\ ~forceCheck THEN Outcome(acc0, TRUE, NoStr, FALSE)
     ELSE IF GroupsOf(u) = <<>>
     THEN LET r == RunOps(NoGroupsOps(forceCheck, t), acc0, plan, us, chatId)
          IN Outcome(r, FALSE, r.err, r.err # NoStr)
     ELSE
       LET r1 == IF FetchError(up) # NoStr
                 THEN [acc0 EXCEPT !.err = FetchError(up)]
                 ELSE RunOps(TryOps(u, up, forceCheck, t), acc0, plan, us, chatId)
       IN IF r1.err = NoStr THEN Outcome(r1, FALSE, NoStr, FALSE)
          ELSE LET r2 == RunOps(CatchOps(r1.err, forceCheck, t),
                                [r1 EXCEPT !.err = NoStr, !.nw = 0, !.ns = 0],
                                CatchPlan(plan), us, chatId)
               IN Outcome(r2, FALSE, r1.err, r2.err # NoStr)

(***************************************************************************)
(* User input.                                                             *)
(***************************************************************************)
\* A message is a sequence of items: raw group tokens and other words
\* (sep = ""); the empty sequence is the empty string.
Word == Tok(0, 0, "", FALSE)

RECURSIVE Dedup(_, _)
Dedup(s, out) ==
  IF s = <<>> THEN out
  ELSE Dedup(Tail(s),
             IF Head(s) \in Range(out) THEN out ELSE Append(out, Head(s)))

IsGroupToken(x) == normalizeGroupId(x) # None
NormTok(x) == normalizeGroupId(x)
IsPossible(g) == g \in Range(POSSIBLE_GROUPS)

\* The ids of the message, each as often as it is written.
ParseKeepsRepeats(raw) ==
  LET tokens == SelectSeq(raw, IsGroupToken)
  IN SelectSeq([i \in DOMAIN tokens |-> NormTok(tokens[i])], IsPossible)

\* The ids of the message taken without the look-up in POSSIBLE_GROUPS.
ParseUnvalidated(raw) ==
  LET tokens == SelectSeq(raw, IsGroupToken)
  IN Dedup([i \in DOMAIN tokens |-> NormTok(tokens[i])], <<>>)

parseGroupsFromUserInput(raw) ==
  LET tokens == SelectSeq(raw, IsGroupToken)
  IN SelectSeq(Dedup([i \in DOMAIN tokens |-> NormTok(tokens[i])], <<>>), IsPossible)

(***************************************************************************)
(* The serialization queue and the handlers.                               *)
(***************************************************************************)
\* The mutation a unit applies to its record.
Op(type, step, list, assumed) ==
  [type |-> type, step |-> step, list |-> list, assumed |-> assumed]
NoOp == Op("none", NoStr, <<>>, NoStr)

\* A unit of work passed to runStateOp.  st: waiting (fn not yet called),
\* running, fulfilled, rejected; ran: fn was called; entries/idx: the chats
\* a check unit goes through and the one it is at; seen: the pendingStep the
\* record held when a mutation was applied.
Unit(kind, chatId, op, src) ==
  [kind |-> kind, chat |-> chatId, op |-> op, src |-> src, st |-> "waiting",
   ran |-> FALSE, entries |-> <<>>, idx |-> 0, seen |-> NoStr]

Settled(st) == st \in {"fulfilled", "rejected"}

\* fn called without waiting for stateOp.
RunAtOnce(predSt) == "run"

\* fn chained on the unit before it only while that unit is running.
RunUnlessRunning(predSt) == IF predSt = "running" THEN "wait" ELSE "run"

\* stateOp = stateOp.then(fn): a rejection passes fn by.
ChainOnSuccess(predSt) ==
  IF predSt = "fulfilled" THEN "run" ELSE IF predSt = "rejected" THEN "skip" ELSE "wait"

\* next = stateOp.then(fn, fn); stateOp = next.then(() => undefined, () => undefined):
\* what happens to a unit given the state of the unit queued before it.  fn
\* is called once the stateOp left by that unit has settled, whichever way.
runStateOp(predSt) == IF Settled(predSt) THEN "run" ELSE "wait"

Full == Len(units) >= MaxUnits

Handler(kind, chatId, pc, unit) ==
  [kind |-> kind, chat |-> chatId, pc |-> pc, unit |-> unit]

\* Object.entries(state.users): integer-like keys in ascending order.
RECURSIVE Entries(_)
Entries(S) ==
  IF S = {} THEN <<>>
  ELSE LET m == CHOOSE x \in S : \A y \in S : x <= y
       IN <<m>> \o Entries(S \ {m})

NoCheck ==
  [n |-> 0, force |-> FALSE, up |-> Fetched(FALSE, None, None), day |-> 0,
   pre |-> NewUser, post |-> NewUser, msgs |-> <<>>, fault |-> NoStr,
   threw |-> FALSE]

(***************************************************************************)
(* Inputs.                                                                 *)
(***************************************************************************)
Chats == {1, 2}
\* The chats that write to the bot.
Callers == {1}

G11 == <<1, 1>>
G21 == <<2, 1>>

TextA == <<Hdr("schedule"), Hdr("as of 12:00"), Grp(G11, "05:30-09:00"),
           Grp(G21, "10:00-12:00")>>
\* TextA as published: padded lines and empty lines.
TextARaw == <<Blank, [Hdr("schedule") EXCEPT !.pad = TRUE], Hdr("as of 12:00"),
              Blank, [Grp(G11, "05:30-09:00") EXCEPT !.pad = TRUE],
              Grp(G21, "10:00-12:00"), Blank>>
\* The line of 1.1 changed.
TextB == <<Hdr("schedule"), Hdr("as of 12:00"),
           Grp(G11, "05:30-09:00, 16:00-19:30"), Grp(G21, "10:00-12:00")>>
\* The line of 2.1 changed.
TextC == <<Hdr("schedule"), Hdr("as of 12:00"), Grp(G11, "05:30-09:00"),
           Grp(G21, "13:00-15:00")>>
\* One header line, then the line of 1.1.
TextOneHdr == <<Hdr("as of 12:00"), Grp(G11, "05:30-09:00")>>
TextOneHdrB == <<Hdr("as of 12:00"), Grp(G11, "05:30-09:00, 16:00-19:30")>>
\* No line of 1.1.
TextNo11 == <<Hdr("schedule"), Hdr("as of 12:00"), Grp(G21, "10:00-12:00")>>

\* One header line, the line of 1.1, and a line of 2.1 added below.
TextOneHdrC == <<Hdr("as of 12:00"), Grp(G11, "05:30-09:00"), Grp(G21, "10:00-12:00")>>

\* What fetchLoePhotoGraficMenuItems can return: a failed request, a menu
\* without "Today", a menu with both items.
Upstreams ==
  {Fetched(FALSE, None, None), Fetched(TRUE, None, None),
   Fetched(TRUE, Some(TextA), Some(TextA))}

\* The writes and sends that can fail during one checkOneChat call.
FaultPlans ==
  {NoFault, Plan(1, 0, "ok"), Plan(1, 0, "write"), Plan(2, 0, "ok"),
   Plan(0, 1, "ok"), Plan(1, 0, "send")}

\* The fetches told apart by the queue: one that throws, one that returns.
QueueFetches == {Fetched(FALSE, None, None), Fetched(TRUE, Some(TextA), Some(TextA))}

\* The failures told apart by the queue: none, one the catch block handles,
\* one that makes checkOneChat throw.
QueueFaults == {NoFault, Plan(1, 0, "ok"), Plan(1, 0, "write")}

\* The publications a subscriber of 1.1 is checked against.
Publications ==
  {Fetched(TRUE, Some(TextA), None), Fetched(TRUE, Some(TextA), Some(TextA)),
   Fetched(TRUE, Some(TextB), Some(TextA)), Fetched(TRUE, Some(TextC), Some(TextC)),
   Fetched(TRUE, Some(TextARaw), Some(TextARaw)),
   Fetched(TRUE, Some(TextOneHdr), None), Fetched(TRUE, Some(TextOneHdrB), None),
   Fetched(TRUE, Some(TextOneHdrC), None),
   Fetched(TRUE, Some(TextA), Some(TextNo11)),
   Fetched(TRUE, Some(TextA), Some(TextOneHdr))}

Messages == {<<Tok(1, 1, ",", FALSE)>>, <<Word>>}
\* What follows /add_group: nothing, or an id.
Tails == {<<>>, <<Tok(2, 1, ".", FALSE)>>}
\* What follows /remove_group: nothing, or an id that is no group.
RemoveTails == {<<>>, <<Tok(9, 9, ".", FALSE)>>}

(***************************************************************************)
(* The state machine.  One step is one turn of the event loop: an update   *)
(* arriving, a timer firing, or an awaited I/O completing, together with   *)
(* every promise reaction that follows it before the next turn (a unit     *)
(* starting when the one before it settles, a handler resuming when its    *)
(* unit settles, scheduleNext arming the timer).                           *)
(***************************************************************************)
World(us, un, hs, sc) == [users |-> us, units |-> un, handlers |-> hs, sched |-> sc]

\* The handlers awaiting unit i resume: a rejection ends the handler; after
\* a fulfilled mutation the prompt of a pending step ends it too, and every
\* other handler goes on as checkLikeCheckCommand does, with its replies and
\* then the forced check.  Two handlers of one chat at the same point are
\* not told apart.
ResumeHandlers(hs, i, st) ==
  {h \in hs : h.unit # i \/ h.pc = "reply"}
    \cup {[h EXCEPT !.kind = "check", !.pc = "reply", !.unit = 0] :
            h \in {x \in hs : x.unit = i /\ x.pc = "awaitMut" /\ x.kind # "prompt"
                              /\ st = "fulfilled"}}

\* .finally(() => scheduleNext()): the next timer is armed.
ResumeSched(sc, i) ==
  IF sc.st = "queued" /\ sc.unit = i THEN [st |-> "timer", unit |-> 0] ELSE sc

\* The list applied with the pending step left in the record.
ApplyKeepsStep(u, op) ==
  CASE op.type = "pending" -> [u EXCEPT !.pendingStep = op.step]
    [] op.type = "set" ->
         [u EXCEPT !.groups = Some(op.list), !.watching = TRUE,
                   !.lastLoeWatchedText = None, !.lastLoeError = NoStr]
    [] op.type = "add" ->
         [u EXCEPT !.groups = Some(Dedup(GroupsOf(u) \o op.list, <<>>)),
                   !.lastLoeWatchedText = None, !.lastLoeError = NoStr]
    [] op.type = "remove" ->
         [u EXCEPT !.groups = Some(SelectSeq(GroupsOf(u),
                                             LAMBDA g : g \notin Range(op.list))),
                   !.lastLoeWatchedText = None, !.lastLoeError = NoStr]

\* Every list applied as a replacement of the groups.
ApplyReplace(u, op) ==
  IF op.type = "pending" THEN [u EXCEPT !.pendingStep = op.step]
  ELSE [u EXCEPT !.groups = Some(op.list), !.pendingStep = NoStr,
                 !.lastLoeWatchedText = None, !.lastLoeError = NoStr]

\* Every mutation switching the scheduled checks on.
ApplyWatching(u, op) ==
  [ApplyKeepsStep(u, op) EXCEPT
     !.watching = TRUE,
     !.pendingStep = IF op.type = "pending" THEN op.step ELSE NoStr]

\* The assignments of a mutation callback.
ApplyOp(u, op) ==
  CASE op.type = "pending" -> [u EXCEPT !.pendingStep = op.step]
    [] op.type = "set" ->
         [u EXCEPT !.groups = Some(op.list), !.pendingStep = NoStr,
                   !.watching = TRUE, !.lastLoeWatchedText = None,
                   !.lastLoeError = NoStr]
    [] op.type = "add" ->
         [u EXCEPT !.groups = Some(Dedup(GroupsOf(u) \o op.list, <<>>)),
                   !.pendingStep = NoStr, !.lastLoeWatchedText = None,
                   !.lastLoeError = NoStr]
    [] op.type = "remove" ->
         [u EXCEPT !.groups = Some(SelectSeq(GroupsOf(u),
                                             LAMBDA g : g \notin Range(op.list))),
                   !.pendingStep = NoStr, !.lastLoeWatchedText = None,
                   !.lastLoeError = NoStr]

\* if (!user.watching && !forceCheck) return: the first entry from idx on
\* whose checkOneChat call does not return at once.
RECURSIVE NextEntry(_, _, _)
NextEntry(us, entries, idx) ==
  IF idx > Len(entries) THEN idx
  ELSE IF us[entries[idx]].watching THEN idx
  ELSE NextEntry(us, entries, idx + 1)

\* StartUnit: stateOp has settled and unit i reacts (fn is called and runs
\* to its first await).  SettleUnit: unit i has settled; the reactions to
\* its promise run.
RECURSIVE StartUnit(_, _), SettleUnit(_, _)
StartUnit(w, i) ==
  IF i \notin DOMAIN w.units THEN w
  ELSE
    LET un == w.units[i]
        react == runStateOp(IF i = 1 THEN "fulfilled" ELSE w.units[i - 1].st)
    IN IF un.st # "waiting" \/ react = "wait" THEN w
       ELSE IF react = "skip"
       THEN SettleUnit([w EXCEPT !.units[i].st = "rejected"], i)
       ELSE CASE un.kind = "mut" ->
                   LET us == ensureUser(w.users, un.chat)
                   IN [w EXCEPT !.users = [us EXCEPT ![un.chat] = ApplyOp(@, un.op)],
                                !.units[i].st = "running", !.units[i].ran = TRUE,
                                !.units[i].seen = us[un.chat].pendingStep]
              [] un.kind = "check" ->
                   [w EXCEPT !.users = ensureUser(w.users, un.chat),
                             !.units[i].st = "running", !.units[i].ran = TRUE,
                             !.units[i].entries = <<un.chat>>, !.units[i].idx = 1]
              [] un.kind = "pass" ->
                   LET entries == Entries(DOMAIN w.users)
                       idx == NextEntry(w.users, entries, 1)
                       w1 == [w EXCEPT !.units[i].ran = TRUE,
                                       !.units[i].entries = entries,
                                       !.units[i].idx = idx,
                                       !.units[i].st = IF idx > Len(entries)
                                                       THEN "fulfilled" ELSE "running"]
                   IN IF idx > Len(entries) THEN SettleUnit(w1, i) ELSE w1
SettleUnit(w, i) ==
  StartUnit([w EXCEPT !.handlers = ResumeHandlers(@, i, w.units[i].st),
                      !.sched = ResumeSched(@, i)],
            i + 1)

\* runStateOp(fn): the unit is queued, and called at once when stateOp is
\* already settled.
Enqueue(w, u) ==
  StartUnit([w EXCEPT !.units = Append(@, u)], Len(w.units) + 1)

Here == World(users, units, handlers, sched)

Become(w) ==
  /\ users' = w.users
  /\ units' = w.units
  /\ handlers' = w.handlers
  /\ sched' = w.sched

\* A store the /groups dialogue followed by /start has written: groups set,
\* watching, no baseline yet, and the step of /start pending.
Resumed ==
  [NewUser EXCEPT !.groups = Some(<<G11>>), !.watching = TRUE, !.pendingStep = "groups"]

\* main: readStateFromDisk finds no file, or the file of an earlier run.
Init ==
  /\ users \in {<<>>, normalizeStateShape([c \in {1} |-> Resumed])}
  /\ disk = IF users = <<>> THEN NoFile ELSE FileOf(users)
  /\ units = <<>>
  /\ handlers = {}
  /\ sched = [st |-> "timer", unit |-> 0]
  /\ now = 0
  /\ lastCheck = [c \in Chats |-> NoCheck]
  /\ prevCheck = [c \in Chats |-> NoCheck]

CanArrive == Cardinality(handlers) < MaxHandlers /\ ~Full

WithHandler(w, h) == [w EXCEPT !.handlers = @ \cup {h}]

\* bot.start: the mutation is queued at once; the replies and the forced
\* check follow it.
StartCmd(c) ==
  /\ CanArrive
  /\ Become(Enqueue(WithHandler(Here, Handler("start", c, "awaitMut", Len(units) + 1)),
                    Unit("mut", c, Op("pending", "groups", <<>>, NoStr), "cmd")))
  /\ UNCHANGED <<disk, now, lastCheck, prevCheck>>

\* The command asking for the list whatever follows it.
EditCmdAsks(c, type, tail) ==
  /\ CanArrive
  /\ Become(Enqueue(WithHandler(Here, Handler("prompt", c, "awaitMut", Len(units) + 1)),
                    Unit("mut", c,
                         Op("pending", IF type = "add" THEN "groups_add" ELSE "groups_remove",
                            <<>>, NoStr),
                         "cmd")))
  /\ UNCHANGED <<disk, now, lastCheck, prevCheck>>

\* addGroupCommand / removeGroupCommand: without a tail the pending step is
\* set; a tail without a valid id is answered and changes nothing; otherwise
\* the list is applied.
EditCmd(c, type, tail) ==
  /\ CanArrive
  /\ LET list == parseGroupsFromUserInput(tail)
         step == IF type = "add" THEN "groups_add" ELSE "groups_remove"
         n == Len(units) + 1
     IN IF tail = <<>>
        THEN Become(Enqueue(WithHandler(Here, Handler("prompt", c, "awaitMut", n)),
                            Unit("mut", c, Op("pending", step, <<>>, NoStr), "cmd")))
        ELSE IF list = <<>>
        THEN /\ Handler("invalid", c, "reply", 0) \notin handlers
             /\ Become(WithHandler(Here, Handler("invalid", c, "reply", 0)))
        ELSE Become(Enqueue(WithHandler(Here, Handler("edit", c, "awaitMut", n)),
                            Unit("mut", c, Op(type, NoStr, list, NoStr), "cmd")))
  /\ UNCHANGED <<disk, now, lastCheck, prevCheck>>

AddGroupCmd(c, tail) == EditCmd(c, "add", tail)
RemoveGroupCmd(c, tail) == EditCmd(c, "remove", tail)

\* bot.command('check'): checkLikeCheckCommand replies before it queues.
CheckCmd(c) ==
  /\ CanArrive
  /\ Handler("check", c, "reply", 0) \notin handlers
  /\ Become(WithHandler(Here, Handler("check", c, "reply", 0)))
  /\ UNCHANGED <<disk, now, lastCheck, prevCheck>>

\* state.users[chatId]?.pendingStep, read by the handler itself.
PendingOf(c) == IF c \in DOMAIN users THEN users[c].pendingStep ELSE NoStr

PendingType(pending) ==
  CASE pending = "groups" -> "set"
    [] pending = "groups_add" -> "add"
    [] pending = "groups_remove" -> "remove"

\* The mutation queued whatever the message parsed to.
TextMsgUnchecked(c, msg) ==
  /\ CanArrive
  /\ PendingOf(c) # NoStr
  /\ Become(Enqueue(WithHandler(Here, Handler("edit", c, "awaitMut", Len(units) + 1)),
                    Unit("mut", c,
                         Op(PendingType(PendingOf(c)), NoStr,
                            parseGroupsFromUserInput(msg), PendingOf(c)),
                         "text")))
  /\ UNCHANGED <<disk, now, lastCheck, prevCheck>>

\* bot.on('text') with a step pending: the step is read, the message parsed,
\* and the mutation queued for the step that was read.
TextMsg(c, msg) ==
  /\ CanArrive
  /\ PendingOf(c) # NoStr
  /\ LET pending == PendingOf(c)
         list == parseGroupsFromUserInput(msg)
     IN IF list = <<>>
        THEN /\ Handler("invalid", c, "reply", 0) \notin handlers
             /\ Become(WithHandler(Here, Handler("invalid", c, "reply", 0)))
        ELSE Become(Enqueue(WithHandler(Here, Handler("edit", c, "awaitMut", Len(units) + 1)),
                            Unit("mut", c, Op(PendingType(pending), NoStr, list, pending),
                                 "text")))
  /\ UNCHANGED <<disk, now, lastCheck, prevCheck>>

\* await ctx.reply(...) returns, and the forced check is queued.
Reply(h) ==
  /\ h \in handlers
  /\ h.pc = "reply"
  /\ IF h.kind = "invalid"
     THEN Become([Here EXCEPT !.handlers = @ \ {h}])
     ELSE /\ ~Full
          /\ Become(Enqueue([Here EXCEPT !.handlers =
                               (@ \ {h}) \cup {[h EXCEPT !.pc = "awaitCheck",
                                                         !.unit = Len(units) + 1]}],
                            Unit("check", h.chat, NoOp, "cmd")))
  /\ UNCHANGED <<disk, now, lastCheck, prevCheck>>

\* await ctx.reply(...) throws: the handler ends there.
ReplyFails(h) ==
  /\ h \in handlers
  /\ h.pc = "reply"
  /\ h.kind # "invalid"
  /\ Become([Here EXCEPT !.handlers = @ \ {h}])
  /\ UNCHANGED <<disk, now, lastCheck, prevCheck>>

\* await writeStateToDisk(state) of a mutation returns.
MutWrite(i) ==
  /\ i \in DOMAIN units
  /\ units[i].kind = "mut" /\ units[i].st = "running"
  /\ disk' = FileOf(users)
  /\ Become(SettleUnit([Here EXCEPT !.units[i].st = "fulfilled"], i))
  /\ UNCHANGED <<now, lastCheck, prevCheck>>

\* await writeStateToDisk(state) of a mutation throws.
MutWriteFails(i) ==
  /\ i \in DOMAIN units
  /\ units[i].kind = "mut" /\ units[i].st = "running"
  /\ Become(SettleUnit([Here EXCEPT !.units[i].st = "rejected"], i))
  /\ UNCHANGED <<disk, now, lastCheck, prevCheck>>

\* The chat whose entry a running check unit has reached.
CheckedChat(i) == units[i].entries[units[i].idx]

\* await checkOneChat(chatId, user, forceCheck) for that chat.
CheckResult(i, up, plan) ==
  checkOneChat(users, disk, CheckedChat(i), units[i].kind = "check", up, now, plan)

\* One checkOneChat call of a running check unit, from its first await to
\* its return.
CheckStep(i, up, plan) ==
  /\ i \in DOMAIN units
  /\ units[i].kind \in {"check", "pass"} /\ units[i].st = "running"
  /\ LET un == units[i]
         r == CheckResult(i, up, plan)
         us == [users EXCEPT ![CheckedChat(i)] = r.u]
         idx == NextEntry(us, un.entries, un.idx + 1)
         st == IF r.threw THEN "rejected"
               ELSE IF idx > Len(un.entries) THEN "fulfilled"
               ELSE "running"
         w == [Here EXCEPT !.users = us, !.units[i].idx = idx, !.units[i].st = st]
     IN /\ Become(IF Settled(st) THEN SettleUnit(w, i) ELSE w)
        /\ disk' = r.file
  /\ UNCHANGED now

\* What the call made by CheckStep(i, up, plan) was given and did.
Observed(i, up, plan) ==
  LET r == CheckResult(i, up, plan)
  IN [n |-> 1, force |-> units[i].kind = "check", up |-> up, day |-> now,
      pre |-> users[CheckedChat(i)], post |-> r.u, msgs |-> r.msgs,
      fault |-> r.fault, threw |-> r.threw]

\* The call is remembered as the last one for its chat.
RecordLast(i, up, plan) ==
  /\ lastCheck' = [lastCheck EXCEPT ![CheckedChat(i)] = Observed(i, up, plan)]
  /\ UNCHANGED prevCheck

\* The call is remembered as the last one, and the last as the one before.
RecordBoth(i, up, plan) ==
  /\ lastCheck' = [lastCheck EXCEPT ![CheckedChat(i)] = Observed(i, up, plan)]
  /\ prevCheck' = [prevCheck EXCEPT ![CheckedChat(i)] = lastCheck[CheckedChat(i)]]

\* A timer that fires at a fixed interval, whether or not the pass before
\* has ended.
TickAtInterval ==
  /\ ~Full
  /\ Become(Enqueue([Here EXCEPT !.sched = [st |-> "queued", unit |-> Len(units) + 1]],
                    Unit("pass", 0, NoOp, "sched")))
  /\ UNCHANGED <<disk, now, lastCheck, prevCheck>>

\* The timer of main / scheduleNext fires: a pass is queued.
Tick ==
  /\ sched.st = "timer"
  /\ ~Full
  /\ Become(Enqueue([Here EXCEPT !.sched = [st |-> "queued", unit |-> Len(units) + 1]],
                    Unit("pass", 0, NoOp, "sched")))
  /\ UNCHANGED <<disk, now, lastCheck, prevCheck>>

Midnight ==
  /\ now < MaxDay
  /\ now' = now + 1
  /\ UNCHANGED <<users, disk, units, handlers, sched, lastCheck, prevCheck>>

\* The program under every trigger: commands, text messages, timer ticks and
\* the completions of their I/O.
Next ==
  \/ \E c \in Callers : StartCmd(c)
  \/ \E c \in Callers, tail \in Tails : AddGroupCmd(c, tail)
  \/ \E c \in Callers, tail \in RemoveTails : RemoveGroupCmd(c, tail)
  \/ \E c \in Callers : CheckCmd(c)
  \/ \E c \in Callers, msg \in Messages : TextMsg(c, msg)
  \/ \E h \in handlers : Reply(h)
  \/ \E h \in handlers : ReplyFails(h)
  \/ \E i \in DOMAIN units : MutWrite(i)
  \/ \E i \in DOMAIN units : MutWriteFails(i)
  \/ \E i \in DOMAIN units, up \in QueueFetches, plan \in QueueFaults :
       CheckStep(i, up, plan) /\ UNCHANGED <<lastCheck, prevCheck>>
  \/ Tick

Spec == Init /\ [][Next]_vars

(***************************************************************************)
(* The store a process starts from in the two specifications below: the    *)
(* one written by the /groups dialogue (groups set, watching, baseline     *)
(* cleared) and read back by readStateFromDisk.                            *)
(***************************************************************************)
Subscriber == [NewUser EXCEPT !.groups = Some(<<G11>>), !.watching = TRUE]

InitSubscribed ==
  /\ users = normalizeStateShape([c \in {1} |-> Subscriber])
  /\ disk = FileOf(users)
  /\ units = <<>>
  /\ handlers = {}
  /\ sched = [st |-> "timer", unit |-> 0]
  /\ now = 0
  /\ lastCheck = [c \in Chats |-> NoCheck]
  /\ prevCheck = [c \in Chats |-> NoCheck]

\* The scheduled polls of the subscriber over the days, each against one of
\* the publications; writes and sends succeed.
NextDiff ==
  \/ \E i \in DOMAIN units, up \in Publications :
       CheckStep(i, up, NoFault) /\ RecordBoth(i, up, NoFault)
  \/ Tick
  \/ Midnight

SpecDiff == InitSubscribed /\ [][NextDiff]_vars

\* The /check commands of the subscriber, with writes and sends that fail.
NextForced ==
  \/ \E c \in Callers : CheckCmd(c)
  \/ \E h \in handlers : Reply(h)
  \/ \E h \in handlers : ReplyFails(h)
  \/ \E i \in DOMAIN units, up \in Upstreams, plan \in FaultPlans :
       CheckStep(i, up, plan) /\ RecordLast(i, up, plan)

SpecForced == InitSubscribed /\ [][NextForced]_vars

\* The subscriber as the store holds it after a /check at time 0 that
\* reported TextA, loaded by a process whose clock is at any day up to the
\* same day of the next month.
InitMonth ==
  /\ users = [c \in {1} |->
                checkOneChat(normalizeStateShape([d \in {1} |-> Subscriber]), NoFile,
                             1, TRUE, Fetched(TRUE, Some(TextA), Some(TextA)), 0,
                             NoFault).u]
  /\ disk = FileOf(users)
  /\ units = <<>>
  /\ handlers = {}
  /\ sched = [st |-> "timer", unit |-> 0]
  /\ now \in 0..DaysPerMonth
  /\ lastCheck = [c \in Chats |-> NoCheck]
  /\ prevCheck = [c \in Chats |-> NoCheck]

SpecMonth == InitMonth /\ [][NextDiff]_vars

(***************************************************************************)
(* Two chats in the store, polled by the scheduler.  The records are ones  *)
(* the handlers write: Emptied after the /groups dialogue and a            *)
(* /remove_group of every group, Second after the /groups dialogue, Idle   *)
(* after /add_group alone (watching never set).                            *)
(***************************************************************************)
Emptied == [NewUser EXCEPT !.groups = Some(<<>>), !.watching = TRUE]
Second == [NewUser EXCEPT !.groups = Some(<<G21>>), !.watching = TRUE]
Idle == [NewUser EXCEPT !.groups = Some(<<G21>>)]

InitPass ==
  /\ users \in {normalizeStateShape([c \in Chats |-> IF c = 1 THEN a ELSE b]) :
                  a \in {Subscriber, Emptied}, b \in {Second, Idle}}
  /\ disk = FileOf(users)
  /\ units = <<>>
  /\ handlers = {}
  /\ sched = [st |-> "timer", unit |-> 0]
  /\ now = 0
  /\ lastCheck = [c \in Chats |-> NoCheck]
  /\ prevCheck = [c \in Chats |-> NoCheck]

\* The failures of a background call: none, a write that fails and is
\* caught, a write that fails again in the catch block, a send that fails.
PassFaults == {NoFault, Plan(1, 0, "ok"), Plan(1, 0, "write"), Plan(0, 1, "ok")}

\* The scheduled passes over the two chats, with fetches, writes and sends
\* that fail.
NextPass ==
  \/ \E i \in DOMAIN units, up \in Upstreams, plan \in PassFaults :
       CheckStep(i, up, plan) /\ RecordLast(i, up, plan)
  \/ Tick

SpecPass == InitPass /\ [][NextPass]_vars

\* The scheduled polls of the subscriber against four of the publications,
\* with sends that fail.
NextSendFails ==
  \/ \E i \in DOMAIN units,
        up \in {Fetched(TRUE, Some(TextA), Some(TextA)),
                Fetched(TRUE, Some(TextB), Some(TextA)),
                Fetched(TRUE, Some(TextA), Some(TextNo11)),
                Fetched(TRUE, Some(TextOneHdr), None)},
        plan \in {NoFault, Plan(0, 1, "ok")} :
       CheckStep(i, up, plan) /\ RecordBoth(i, up, plan)
  \/ Tick
  \/ Midnight

SpecSendFails == InitSubscribed /\ [][NextSendFails]_vars

(***************************************************************************)
(* One chat, checked by the scheduler and by /check, with fetches, writes  *)
(* and sends that fail.                                                    *)
(***************************************************************************)
InitChecks ==
  /\ users \in {normalizeStateShape([c \in {1} |-> a]) : a \in {Subscriber, Emptied}}
  /\ disk = FileOf(users)
  /\ units = <<>>
  /\ handlers = {}
  /\ sched = [st |-> "timer", unit |-> 0]
  /\ now = 0
  /\ lastCheck = [c \in Chats |-> NoCheck]
  /\ prevCheck = [c \in Chats |-> NoCheck]

NextChecks ==
  \/ \E c \in Callers : CheckCmd(c)
  \/ \E h \in handlers : Reply(h)
  \/ \E h \in handlers : ReplyFails(h)
  \/ \E i \in DOMAIN units, up \in Upstreams, plan \in FaultPlans :
       CheckStep(i, up, plan) /\ RecordLast(i, up, plan)
  \/ Tick

SpecChecks == InitChecks /\ [][NextChecks]_vars

\* The store holds the record of a subscriber, or the record /add_group
\* with a list made for a chat that was never asked for its groups (not
\* watching).
InitEither ==
  /\ users \in {normalizeStateShape([c \in {1} |-> a]) : a \in {Subscriber, Idle}}
  /\ disk = FileOf(users)
  /\ units = <<>>
  /\ handlers = {}
  /\ sched = [st |-> "timer", unit |-> 0]
  /\ now = 0
  /\ lastCheck = [c \in Chats |-> NoCheck]
  /\ prevCheck = [c \in Chats |-> NoCheck]

SpecEither == InitEither /\ [][NextChecks]_vars

(***************************************************************************)
(* The dialogues of one chat: an empty store, or the record of a           *)
(* subscriber that was asked for groups by /start, /add_group or           *)
(* /remove_group before the process was restarted.                         *)
(***************************************************************************)
Collecting(step) == [Subscriber EXCEPT !.pendingStep = step]

InitDialog ==
  /\ users \in {<<>>} \cup
               {normalizeStateShape([c \in {1} |-> Collecting(step)]) :
                  step \in {"groups", "groups_add", "groups_remove"}}
  /\ disk = IF users = <<>> THEN NoFile ELSE FileOf(users)
  /\ units = <<>>
  /\ handlers = {}
  /\ sched = [st |-> "timer", unit |-> 0]
  /\ now = 0
  /\ lastCheck = [c \in Chats |-> NoCheck]
  /\ prevCheck = [c \in Chats |-> NoCheck]

\* Free-text messages: no id at all, an id that is no group, one id,
\* "1,1; 3.2", and "1,1 and 02.1 1.1" (two ids, one of them twice).
DialogMessages ==
  {<<Word>>, <<Tok(9, 9, ".", FALSE)>>, <<Tok(2, 1, ".", FALSE)>>,
   <<Tok(1, 1, ",", FALSE), Word, Tok(3, 2, ".", FALSE)>>,
   <<Tok(1, 1, ",", FALSE), Word, Tok(2, 1, ".", TRUE), Tok(1, 1, ".", FALSE)>>}

\* What follows /add_group or /remove_group: nothing, or one id.
DialogTails == {<<>>, <<Tok(1, 1, ".", FALSE)>>}

DialogFetches == {Fetched(TRUE, Some(TextA), Some(TextA))}

NextDialog ==
  \/ \E c \in Callers : StartCmd(c)
  \/ \E c \in Callers, tail \in DialogTails : AddGroupCmd(c, tail)
  \/ \E c \in Callers, tail \in DialogTails : RemoveGroupCmd(c, tail)
  \/ \E c \in Callers, msg \in DialogMessages : TextMsg(c, msg)
  \/ \E h \in handlers : Reply(h)
  \/ \E h \in handlers : ReplyFails(h)
  \/ \E i \in DOMAIN units : MutWrite(i)
  \/ \E i \in DOMAIN units : MutWriteFails(i)
  \/ \E i \in DOMAIN units, up \in DialogFetches :
       CheckStep(i, up, NoFault) /\ UNCHANGED <<lastCheck, prevCheck>>
  \/ Tick

SpecDialog == InitDialog /\ [][NextDialog]_vars

\* What follows /add_group or /remove_group with a list: "9.9", "2.1" and
\* "1,1 3.2".
InlineTails ==
  {<<Tok(9, 9, ".", FALSE)>>, <<Tok(2, 1, ".", FALSE)>>,
   <<Tok(1, 1, ",", FALSE), Tok(3, 2, ".", FALSE)>>}

\* The commands with a list, from a chat the store does not know or one
\* that was asked for a list, with their writes, replies and forced checks.
NextInline ==
  \/ \E c \in Callers, tail \in InlineTails : AddGroupCmd(c, tail)
  \/ \E c \in Callers, tail \in InlineTails : RemoveGroupCmd(c, tail)
  \/ \E h \in handlers : Reply(h)
  \/ \E h \in handlers : ReplyFails(h)
  \/ \E i \in DOMAIN units : MutWrite(i)
  \/ \E i \in DOMAIN units : MutWriteFails(i)
  \/ \E i \in DOMAIN units, up \in DialogFetches :
       CheckStep(i, up, NoFault) /\ UNCHANGED <<lastCheck, prevCheck>>

SpecInline == InitDialog /\ [][NextInline]_vars

(***************************************************************************)
(* The store file.  In this part the file is kept as its text, a sequence  *)
(* of tokens, next to the temporary file of writeStateToDisk:               *)
(*   disk = [file |-> [exists, doc], tmp |-> [exists, doc]].               *)
(* A JSON value is its type and what the code reads of it; a member that   *)
(* is not there has type "undefined".                                      *)
(***************************************************************************)
JV(ty, v) == [ty |-> ty, v |-> v]

\* JSON.stringify of one normalized record: members that are undefined are
\* left out.  For watching, v is the truthiness of the value.
JsonOf(u) ==
  LET time(t) == IF t = NoTime THEN JV("undefined", 0) ELSE JV("string", t)
      str(s) == IF s = NoStr THEN JV("undefined", NoStr) ELSE JV("string", s)
      text(x) == IF x = None THEN JV("undefined", <<>>) ELSE JV("string", x[1])
  IN [groups |-> IF u.groups = None THEN JV("undefined", <<>>)
                 ELSE JV("array", [i \in 1..Len(u.groups[1]) |->
                                     JV("string", u.groups[1][i])]),
      pendingStep |-> str(u.pendingStep),
      watching |-> JV("boolean", u.watching),
      lastLoeCheckedAt |-> time(u.lastLoeCheckedAt),
      lastLoeNotifiedAt |-> time(u.lastLoeNotifiedAt),
      lastLoeWatchedText |-> text(u.lastLoeWatchedText),
      lastLoeError |-> str(u.lastLoeError),
      lastLoeTomorrowCheckedAt |-> time(u.lastLoeTomorrowCheckedAt),
      lastLoeTomorrowNotifiedAt |-> time(u.lastLoeTomorrowNotifiedAt),
      lastLoeTomorrowWatchedText |-> text(u.lastLoeTomorrowWatchedText),
      lastLoeTomorrowStatus |-> str(u.lastLoeTomorrowStatus),
      lastLoeTomorrowError |-> str(u.lastLoeTomorrowError)]

\* One token of the text: "{", the key "users" opening its object, the key
\* "users" with the value null, the entry of one chat, "}".
Mark(k) == [k |-> k, chat |-> 0, val |-> JV("undefined", JsonOf(NewUser))]
Entry(chatId, val) == [k |-> "entry", chat |-> chatId, val |-> val]

\* The chat ids alone, each with an empty object.
StringifyKeys(us) ==
  LET cs == DOMAIN us
      nth(i) == CHOOSE c \in cs : Cardinality({d \in cs : d < c}) = i - 1
  IN <<Mark("{"), Mark("users")>>
       \o [i \in 1..Cardinality(cs) |->
             Entry(nth(i), JV("object", JsonOf(NewUser)))]
       \o <<Mark("}")>>

\* JSON.stringify(normalized, null, 2): the entries in the order of the
\* chat ids.
stringify(us) ==
  LET cs == DOMAIN us
      nth(i) == CHOOSE c \in cs : Cardinality({d \in cs : d < c}) = i - 1
  IN <<Mark("{"), Mark("users")>>
       \o [i \in 1..Cardinality(cs) |->
             Entry(nth(i), JV("object", JsonOf(us[nth(i)])))]
       \o <<Mark("}")>>

\* JSON.parse(raw) and the test of lines 257-263: ok is FALSE when the text
\* is no JSON, users is None when the document has no users object.
JSONparse(raw) ==
  LET n == Len(raw)
      closed == n >= 2 /\ raw[1].k = "{" /\ raw[n].k = "}"
      plain == \A i \in 2..(n - 1) : raw[i].k \notin {"{", "}"}
      hasUsers == n >= 3 /\ raw[2].k = "users"
                    /\ \A i \in 3..(n - 1) : raw[i].k = "entry"
      noUsers == n = 2 \/ (n = 3 /\ raw[2].k = "null")
      cs == {raw[i].chat : i \in 3..(n - 1)}
      last(c) == CHOOSE i \in 3..(n - 1) :
                   /\ raw[i].chat = c
                   /\ \A j \in 3..(n - 1) : raw[j].chat = c => j <= i
  IN IF ~(closed /\ plain /\ (hasUsers \/ noUsers)) THEN [ok |-> FALSE, users |-> None]
     ELSE IF noUsers THEN [ok |-> TRUE, users |-> None]
     ELSE [ok |-> TRUE, users |-> Some([c \in cs |-> raw[last(c)].val])]

\* normalizeStateShape on one entry of a parsed document.
FromJson(raw) ==
  LET u == IF raw.ty = "object" THEN raw.v ELSE [f \in DOMAIN raw.v |->
                                                   JV("undefined", raw.v[f].v)]
      time(j) == IF j.ty = "string" THEN j.v ELSE NoTime
      str(j) == IF j.ty = "string" THEN j.v ELSE NoStr
      text(j) == IF j.ty = "string" THEN Some(j.v) ELSE None
      strings == SelectSeq(u.groups.v, LAMBDA x : x.ty = "string")
  IN NormalizeUser(
       [groups |-> IF u.groups.ty = "array"
                   THEN Some([i \in 1..Len(strings) |-> strings[i].v]) ELSE None,
        pendingStep |-> str(u.pendingStep),
        watching |-> u.watching.ty # "undefined" /\ u.watching.v,
        lastLoeCheckedAt |-> time(u.lastLoeCheckedAt),
        lastLoeNotifiedAt |-> time(u.lastLoeNotifiedAt),
        lastLoeWatchedText |-> text(u.lastLoeWatchedText),
        lastLoeError |-> str(u.lastLoeError),
        lastLoeTomorrowCheckedAt |-> time(u.lastLoeTomorrowCheckedAt),
        lastLoeTomorrowNotifiedAt |-> time(u.lastLoeTomorrowNotifiedAt),
        lastLoeTomorrowWatchedText |-> text(u.lastLoeTomorrowWatchedText),
        lastLoeTomorrowStatus |-> str(u.lastLoeTomorrowStatus),
        lastLoeTomorrowError |-> str(u.lastLoeTomorrowError)])

\* readStateFromDisk: ENOENT, a text that does not parse and a document
\* without a users object give the empty store.
readStateFromDisk(file) ==
  LET parsed == JSONparse(file.doc)
  IN IF ~file.exists \/ ~parsed.ok \/ parsed.users = None THEN <<>>
     ELSE [c \in DOMAIN parsed.users[1] |-> FromJson(parsed.users[1][c])]

Written(text) == [exists |-> TRUE, doc |-> text]

\* The text written to the store file itself.
WriteInPlace(fs, us, k) ==
  LET text == stringify(normalizeStateShape(us))
  IN IF k = 0 THEN fs
     ELSE [fs EXCEPT !.file = Written(SubSeq(text, 1, Min(k - 1, Len(text))))]

\* writeStateToDisk(state) up to its k-th step: the temporary file opened
\* and truncated, its text written token by token, and the rename.
writeStateToDisk(fs, us, k) ==
  LET text == stringify(normalizeStateShape(us))
  IN IF k = 0 THEN fs
     ELSE IF k <= Len(text) + 1
          THEN [fs EXCEPT !.tmp = Written(SubSeq(text, 1, k - 1))]
     ELSE [file |-> Written(text), tmp |-> NoFile]

\* Records as a file may hold them: written by the bot, by hand or by
\* another version, with members of another type.
RawUsers ==
  {[JsonOf(NewUser) EXCEPT !.watching = w, !.lastLoeCheckedAt = t,
                           !.groups = g, !.pendingStep = p] :
     w \in {JV("boolean", TRUE), JV("boolean", FALSE), JV("undefined", FALSE),
            JV("string", TRUE), JV("number", FALSE)},
     t \in {JV("undefined", 0), JV("string", 0), JV("number", 1)},
     g \in {JV("undefined", <<>>), JV("array", <<JV("string", G11)>>),
            JV("array", <<JV("number", G21), JV("string", G11)>>),
            JV("string", <<>>)},
     p \in {JV("undefined", NoStr), JV("string", "groups_add"),
            JV("string", "other")}}

RawFiles ==
  {NoFile, Written(<<>>), Written(<<Mark("{"), Mark("}")>>),
   Written(<<Mark("{"), Mark("null"), Mark("}")>>),
   Written(<<Mark("{"), Mark("users"), Mark("}")>>),
   Written(<<Mark("{"), Mark("users"), Entry(1, JV("null", JsonOf(NewUser))),
             Mark("}")>>)}
    \cup {Written(<<Mark("{"), Mark("users"), Entry(1, JV("object", r))>>
                    \o tail) :
            r \in RawUsers, tail \in {<<>>, <<Mark("}")>>}}

\* The mutations of the units that save.
StoreOps ==
  {Op("set", NoStr, <<G11>>, NoStr), Op("add", NoStr, <<G21>>, NoStr),
   Op("pending", "groups_remove", <<>>, NoStr)}

Mutated(us, c, op) == [ensureUser(us, c) EXCEPT ![c] = ApplyOp(@, op)]

InitStore ==
  /\ users = <<>>
  /\ disk \in {[file |-> f, tmp |-> NoFile] : f \in RawFiles}
  /\ units = <<>>
  /\ handlers = {}
  /\ sched = [st |-> "main", unit |-> 0]
  /\ now = 0
  /\ lastCheck = [c \in Chats |-> NoCheck]
  /\ prevCheck = [c \in Chats |-> NoCheck]

\* main: state = await readStateFromDisk(), then the first timer.
Load ==
  /\ sched.st \in {"main", "killed"}
  /\ users' = readStateFromDisk(disk.file)
  /\ sched' = [sched EXCEPT !.st = "timer"]
  /\ UNCHANGED <<disk, units, handlers, now, lastCheck, prevCheck>>

\* A unit assigns to the record of chat c and saves.
Save(c, op) ==
  /\ sched.st = "timer"
  /\ users' = Mutated(users, c, op)
  /\ disk' = writeStateToDisk(disk, users', Len(stringify(users')) + 2)
  /\ UNCHANGED <<units, handlers, sched, now, lastCheck, prevCheck>>

\* The process is killed k steps into the save of such a unit; its memory
\* is gone.
Kill(c, op, k) ==
  /\ sched.st = "timer"
  /\ disk' = writeStateToDisk(disk, Mutated(users, c, op), k)
  /\ users' = <<>>
  /\ sched' = [sched EXCEPT !.st = "killed"]
  /\ UNCHANGED <<units, handlers, now, lastCheck, prevCheck>>

NextStore ==
  \/ Load
  \/ \E c \in Chats, op \in StoreOps : Save(c, op)
  \/ \E c \in Chats, op \in StoreOps :
       \E k \in 0..(Len(stringify(Mutated(users, c, op))) + 2) : Kill(c, op, k)

SpecStore == InitStore /\ [][NextStore]_vars

(***************************************************************************)
(* The serialization queue.                                                *)
(***************************************************************************)
Started(i) == units[i].ran /\ ~Settled(units[i].st)

\* C1: in every reachable state at most one queued unit (mutation, forced
\* check or scheduled pass) has started and not yet finished.
C1_AtMostOneUnitRuns ==
  Cardinality({i \in DOMAIN units : Started(i)}) <= 1

\* A unit is running while a later one waits for it.
C1_Witness ==
  \E i, j \in DOMAIN units : i < j /\ Started(i) /\ units[j].st = "waiting"

\* C2: a unit passed to runStateOp before another has finished, fulfilled or
\* rejected, before the other starts.
C2_FifoOrder ==
  \A i, j \in DOMAIN units :
    (i < j /\ units[j].st # "waiting") => Settled(units[i].st)

\* A unit that had to wait for a command's mutation has started after it.
C2_Witness ==
  \E i, j \in DOMAIN units :
    /\ i < j
    /\ units[i].kind = "mut" /\ Settled(units[i].st)
    /\ units[j].src # units[i].src /\ Started(j)

\* C3: a rejected unit does not block the queue: the unit after it is
\* started, no unit is settled without having run its own callback (the
\* rejection reaches only the promise of the unit that threw), and the
\* scheduler waits only for a pass that is still unsettled.
C3_FailureDoesNotBlock ==
  /\ \A i \in DOMAIN units : Settled(units[i].st) => units[i].ran
  /\ \A i \in DOMAIN units :
       (units[i].st = "rejected" /\ i + 1 \in DOMAIN units)
         => units[i + 1].st # "waiting"
  /\ sched.st = "queued" => ~Settled(units[sched.unit].st)
  /\ \A h \in handlers : h.unit # 0 => ~Settled(units[h.unit].st)

\* A unit was rejected and the unit queued behind it has run.
C3_Witness ==
  \E i \in DOMAIN units :
    /\ units[i].st = "rejected"
    /\ i + 1 \in DOMAIN units
    /\ units[i + 1].ran

\* C4: the pending step by which a free-text message was interpreted is the
\* step the record holds when the message's mutation is applied.
C4_PendingReadInsideUnit ==
  \A i \in DOMAIN units :
    (units[i].src = "text" /\ units[i].kind = "mut" /\ units[i].ran)
      => units[i].seen = units[i].op.assumed

(***************************************************************************)
(* The check policy, stated over the last two checkOneChat calls made for  *)
(* chat 1: prevCheck[1] and then lastCheck[1].                             *)
(***************************************************************************)
Prev == prevCheck[1]
Last == lastCheck[1]

TodayKinds == {"checked", "today", "today_changed"}
TomorrowKinds == {"tomorrow_appeared", "tomorrow_changed"}

KindsOf(rec) == {rec.msgs[k].kind : k \in DOMAIN rec.msgs}
MsgsOfKind(rec, kinds) == SelectSeq(rec.msgs, LAMBDA m : m.kind \in kinds)

Background(rec) == rec.n = 1 /\ ~rec.force
NoBaseline(rec) == ~Truthy(rec.pre.lastLoeWatchedText)

\* The lines of a published text that name a subgroup, as published.
SubgroupLines(t) == IF t = None THEN None ELSE Some(SelectSeq(t[1], ScheduleLineRe))

\* A published text without the lines of the subgroups not in groups.
WithoutOthers(t, groups) ==
  IF t = None THEN None
  ELSE Some(SelectSeq(t[1], LAMBDA l :
              ~ScheduleLineRe(l) \/ <<l.id.maj, l.id.min>> \in Range(groups)))

\* The published text has a line for one of the groups.
HasLineFor(t, groups) ==
  /\ t # None
  /\ \E i \in DOMAIN groups : parseGroupSchedulesFromText(t[1], groups[i]) # None

C6_SameLinesSendNothing ==
  ( /\ Background(Prev) /\ Background(Last)
    /\ getDate(Prev.day) = getDate(Last.day) /\ Prev.day = Last.day
    /\ GroupsOf(Prev.pre) = GroupsOf(Last.pre)
    /\ SubgroupLines(Prev.up.today) = SubgroupLines(Last.up.today)
    /\ SubgroupLines(Prev.up.tomorrow) = SubgroupLines(Last.up.tomorrow) )
  => Last.msgs = <<>>

\* C7: between two background checks of the same day the publication
\* changed only in lines of subgroups the subscriber does not track: the
\* later check sends nothing.
C7_UntrackedChangeSendsNothing ==
  ( /\ Background(Prev) /\ Background(Last)
    /\ Prev.day = Last.day
    /\ GroupsOf(Prev.pre) = GroupsOf(Last.pre)
    /\ Prev.up # Last.up
    /\ WithoutOthers(Prev.up.today, GroupsOf(Last.pre))
         = WithoutOthers(Last.up.today, GroupsOf(Last.pre))
    /\ WithoutOthers(Prev.up.tomorrow, GroupsOf(Last.pre))
         = WithoutOthers(Last.up.tomorrow, GroupsOf(Last.pre)) )
  => Last.msgs = <<>>

\* C8: the check after one that found tomorrow's schedule absent, finding it
\* present with a line for a tracked subgroup, sends "appeared" exactly
\* once; a check after that with unchanged tomorrow content sends no
\* tomorrow notification.
C8_AppearedOnce ==
  /\ ( /\ Prev.n = 1 /\ Last.n = 1
       /\ Prev.up.tomorrow = None
       /\ HasLineFor(Last.up.tomorrow, GroupsOf(Last.pre)) )
     => /\ Len(MsgsOfKind(Last, {"tomorrow_appeared"})) = 1
        /\ "tomorrow_changed" \notin KindsOf(Last)
  /\ ( /\ Prev.n = 1 /\ Last.n = 1
       /\ HasLineFor(Prev.up.tomorrow, GroupsOf(Prev.pre))
       /\ GroupsOf(Prev.pre) = GroupsOf(Last.pre)
       /\ Last.up.tomorrow = Prev.up.tomorrow )
     => KindsOf(Last) \cap TomorrowKinds = {}

\* C9: subscriber of 1.1, today's text one header line and the line of 1.1.
\* The first background check stores the baseline and sends nothing, a
\* second one with the same text sends nothing, and a check after that with
\* a changed line of 1.1 sends exactly one notification with the new line
\* and leaves lastLoeError cleared.
C9_TodayScenario ==
  /\ ( /\ Background(Last) /\ NoBaseline(Last)
       /\ GroupsOf(Last.pre) = <<G11>>
       /\ Last.up = Fetched(TRUE, Some(TextOneHdr), None) )
     => /\ Last.msgs = <<>>
        /\ Truthy(Last.post.lastLoeWatchedText)
  /\ ( /\ Background(Prev) /\ NoBaseline(Prev) /\ Background(Last)
       /\ GroupsOf(Prev.pre) = <<G11>>
       /\ Prev.up = Fetched(TRUE, Some(TextOneHdr), None)
       /\ Last.up = Prev.up /\ Last.day = Prev.day )
     => Last.msgs = <<>>
  /\ ( /\ Background(Prev) /\ ~NoBaseline(Prev) /\ Background(Last)
       /\ GroupsOf(Prev.pre) = <<G11>>
       /\ Prev.up = Fetched(TRUE, Some(TextOneHdr), None)
       /\ Last.up = Fetched(TRUE, Some(TextOneHdrB), None)
       /\ Last.day = Prev.day )
     => /\ Len(Last.msgs) = 1
        /\ TextOneHdrB[2] \in Range(Last.msgs[1].text)
        /\ Last.post.lastLoeError = NoStr

\* What a forced check reports for today: one delivered message with the
\* current watched text, stored as the baseline, and lastLoeNotifiedAt set.
ReportsToday(rec) ==
  LET text == rec.up.today[1]
      watchedText == WatchedText(HeaderLines(text),
                                 SelectedLines(GroupsOf(rec.pre), text, NotFoundToday))
      sent == MsgsOfKind(rec, TodayKinds)
  IN /\ Len(sent) = 1
     /\ sent[1].text = watchedText /\ sent[1].ok
     /\ rec.post.lastLoeWatchedText = Some(watchedText)
     /\ rec.post.lastLoeNotifiedAt = rec.day

HasToday(rec) ==
  rec.n = 1 /\ rec.force /\ GroupsOf(rec.pre) # <<>> /\ rec.up.ok /\ rec.up.today # None

Delivered(rec) == \E k \in DOMAIN rec.msgs : rec.msgs[k].ok

Passes == {i \in DOMAIN units : units[i].kind = "pass"}

\* The call a running pass is in is for a watching record.
PassAtWatcher ==
  \A i \in Passes :
    units[i].st = "running"
      => /\ units[i].idx \in DOMAIN units[i].entries
         /\ users[units[i].entries[units[i].idx]].watching

\* Every background call was made for a watching record.
BackgroundOnlyWatchers ==
  \A c \in Chats :
    (lastCheck[c].n = 1 /\ ~lastCheck[c].force) => lastCheck[c].pre.watching

\* A pass that has ended has gone through every entry.
EndedPassWentThrough ==
  \A i \in Passes :
    Settled(units[i].st) => units[i].idx > Len(units[i].entries)

\* A record that is not watching is as the store held it at the start, in
\* memory and in the file, and no call was made for it.
NotWatchingUntouched ==
  \A c \in DOMAIN users :
    ~users[c].watching
      => /\ users[c] = Idle
         /\ disk.doc[c] = NormalizeUser(Idle)
         /\ lastCheck[c].n = 0

\* C11: a scheduled pass calls checkOneChat with forceCheck = false for
\* exactly the watching records, one call at a time in the order of the
\* entries, so a pass that has ended has gone through every watching record;
\* a record that is not watching is left unchanged, is not written and gets
\* no message.
C11_PassEvaluatesWatchers ==
  /\ PassAtWatcher
  /\ BackgroundOnlyWatchers
  /\ C1_AtMostOneUnitRuns
  /\ EndedPassWentThrough
  /\ NotWatchingUntouched


\* Unit i is inside a checkOneChat call that has issued the fetch.
AwaitsFetch(i) ==
  /\ units[i].kind \in {"check", "pass"}
  /\ units[i].st = "running"
  /\ GroupsOf(users[CheckedChat(i)]) # <<>>

\* C12: while the fetch of a unit has not returned, the scheduler is not
\* held up by that unit: its timer is armed, or the pass it queued when the
\* delay elapsed waits behind the unit.
C12_SchedulerNotStalled ==
  \A i \in DOMAIN units :
    AwaitsFetch(i)
      => \/ sched.st = "timer"
         \/ sched.st = "queued" /\ sched.unit > i


(***************************************************************************)
(* Failures of a check, stated over the last checkOneChat call made for    *)
(* chat 1.                                                                 *)
(***************************************************************************)
\* The call found no group selected.
NoGroups(rec) == rec.n = 1 /\ GroupsOf(rec.pre) = <<>>

\* The call failed for a reason of the upstream or of the selection, and
\* the message of that failure.
FailureOf(rec) ==
  IF NoGroups(rec) THEN "no groups"
  ELSE IF rec.n = 1 /\ FetchError(rec.up) # NoStr THEN FetchError(rec.up)
  ELSE NoStr

FailureKinds == {"error", "no_groups"}

\* C13: a check that fails (fetch failure, no "Today" item, no group
\* selected) leaves the message of the failure in lastLoeError and sends a
\* message about it exactly when it is a forced check, a background check
\* that fails sends nothing, and a check that succeeds leaves lastLoeError
\* cleared.
C13_FailureRecordedAndSurfaced ==
  /\ FailureOf(Last) # NoStr
       => /\ Last.post.lastLoeError = FailureOf(Last)
          /\ (KindsOf(Last) \cap FailureKinds # {}) <=> Last.force
          /\ ~Last.force => Last.msgs = <<>>
  /\ (Last.n = 1 /\ FailureOf(Last) = NoStr /\ Last.fault = NoStr)
       => Last.post.lastLoeError = NoStr


\* C14: a failure inside one checkOneChat call of a pass, a failed store
\* write included, stays inside that call: the call returns normally, the
\* pass goes on to the remaining watching records and is fulfilled, and the
\* records in memory keep the shape the next pass reads.
C14_FailuresContained ==
  /\ \A c \in Chats :
       (lastCheck[c].n = 1 /\ ~lastCheck[c].force) => ~lastCheck[c].threw
  /\ \A i \in Passes : units[i].st # "rejected"
  /\ EndedPassWentThrough
  /\ users = normalizeStateShape(users)


(***************************************************************************)
(* The dialogues.                                                          *)
(***************************************************************************)
\* C15: a free-text message that arrives while a step is pending and holds
\* no valid group id changes nothing: the records (groups, pending step,
\* baselines) and the store file stay as they are and no unit is queued, by
\* the message or by the replies that answer it.
C15_InvalidTextChangesNothing ==
  [][/\ \A c \in Callers, msg \in DialogMessages :
          (PendingOf(c) # NoStr /\ parseGroupsFromUserInput(msg) = <<>>
             /\ TextMsg(c, msg))
            => (users' = users /\ disk' = disk /\ units' = units)
     /\ \A h \in handlers :
          (h.kind = "invalid" /\ Reply(h))
            => (users' = users /\ disk' = disk /\ units' = units)]_vars

\* Such a message is being answered: the step is still pending and nothing
\* was queued.  (In the dialogues only a text message is answered this way.)
C15_Witness ==
  \E h \in handlers :
    /\ h.kind = "invalid"
    /\ h.chat \in DOMAIN users
    /\ users[h.chat].pendingStep = "groups_add"
    /\ units = <<>>


\* The list mutation of unit i is applied in this step.
Applied(i) ==
  /\ i \in DOMAIN units'
  /\ units'[i].kind = "mut" /\ units'[i].op.type # "pending"
  /\ units'[i].ran
  /\ i \in DOMAIN units => ~units[i].ran

\* The groups of chat c before the step.
GroupsBefore(c) == IF c \in DOMAIN users THEN GroupsOf(users[c]) ELSE <<>>

\* What the list S makes of the groups `old` under the pending step.
Expected(step, old, S) ==
  CASE step = "groups" -> S
    [] step = "groups_add" -> old \o SelectSeq(S, LAMBDA g : g \notin Range(old))
    [] step = "groups_remove" -> SelectSeq(old, LAMBDA g : g \notin Range(S))

\* C16: when the mutation of a free-text message is applied, the message
\* having parsed to a non-empty list S of valid ids, the groups become S
\* (step "groups"), the groups so far followed by the ids of S not yet among
\* them ("groups_add"), or the groups so far without the ids of S
\* ("groups_remove"), and no step is pending any longer.
C16_TextMutationApplied ==
  [][\A i \in DOMAIN units' :
       (Applied(i) /\ units'[i].src = "text")
         => LET un == units'[i]
                S == un.op.list
            IN /\ S # <<>> /\ Range(S) \subseteq Range(POSSIBLE_GROUPS)
               /\ users'[un.chat].groups
                    = Some(Expected(un.op.assumed, GroupsBefore(un.chat), S))
               /\ users'[un.chat].pendingStep = NoStr]_vars

\* "1,1 and 02.1 1.1" was applied as an addition to the groups <<1.1>>.
C16_Witness ==
  \E i \in DOMAIN units :
    /\ units[i].src = "text" /\ units[i].ran
    /\ units[i].op.assumed = "groups_add"
    /\ units[i].op.list = <<G11, G21>>
    /\ units[i].st = "running"
    /\ users[units[i].chat].groups = Some(<<G11, G21>>)


\* The list mutation of unit i has been applied and its write is awaited.
JustApplied(i) ==
  units[i].kind = "mut" /\ units[i].op.type # "pending" /\ units[i].st = "running"

\* C17: once a change of the groups (set, addition or removal) is applied,
\* the record holds no baseline text and no error, for today and for
\* tomorrow, so the next check compares against no previous baseline.
C17_MutationClearsBaselines ==
  \A i \in DOMAIN units :
    JustApplied(i)
      => LET u == users[units[i].chat]
         IN /\ u.lastLoeWatchedText = None
            /\ u.lastLoeError = NoStr
            /\ u.lastLoeTomorrowWatchedText = None
            /\ u.lastLoeTomorrowError = NoStr


\* The handler of chat c is at the replies that precede its forced check.
AboutToCheck(c) ==
  \E h \in handlers : h.chat = c /\ h.kind = "check" /\ h.pc = "reply"

\* C18: after a change of the groups has been applied and written, the
\* forced check of the same chat is on its way: it is a later unit of the
\* queue, or the handler is at the replies after which it queues the check.
C18_MutationTriggersForcedCheck ==
  \A i \in DOMAIN units :
    (units[i].kind = "mut" /\ units[i].op.type # "pending"
       /\ units[i].st = "fulfilled")
      => \/ \E j \in DOMAIN units :
              j > i /\ units[j].kind = "check" /\ units[j].chat = units[i].chat
         \/ AboutToCheck(units[i].chat)


\* The groups of every record of us are ids of POSSIBLE_GROUPS, each once.
GroupsValid(us) ==
  \A c \in DOMAIN us :
    LET gs == GroupsOf(us[c])
    IN /\ Range(gs) \subseteq Range(POSSIBLE_GROUPS)
       /\ \A a, b \in DOMAIN gs : gs[a] = gs[b] => a = b

Stored(c, f) ==
  IF disk.exists /\ c \in DOMAIN disk.doc THEN disk.doc[c][f] ELSE None

\* C20: a baseline text held in memory, for today or for tomorrow, is the
\* one the store file holds: no new value is in the record without its
\* write having completed.
C20_BaselinePersistedFirst ==
  \A c \in DOMAIN users :
    /\ users[c].lastLoeWatchedText # None
         => Stored(c, "lastLoeWatchedText") = users[c].lastLoeWatchedText
    /\ users[c].lastLoeTomorrowWatchedText # None
         => Stored(c, "lastLoeTomorrowWatchedText") = users[c].lastLoeTomorrowWatchedText


\* Unit i changed the groups of chat c and was written.
Resolved(i, c) ==
  /\ units[i].kind = "mut" /\ units[i].chat = c
  /\ units[i].op.type # "pending" /\ units[i].st = "fulfilled"

\* Unit k set a pending step of chat c.
Asked(k, c) ==
  units[k].kind = "mut" /\ units[k].chat = c /\ units[k].op.type = "pending"
    /\ units[k].ran

\* Check unit j was queued by the handler of a change of the groups: no
\* /start, the other handler that goes on to a forced check, came before it.
FollowUp(j) ==
  /\ units[j].kind = "check"
  /\ \A k \in 1..(j - 1) : ~(units[k].kind = "mut" /\ units[k].op.step = "groups")

\* C21: while the forced check that follows a change of the groups runs
\* (and sends), the change has been applied and written before it, and the
\* step it resolved is no longer pending: a step the record holds then was
\* set by a later command, after the change.
C21_StepClearedBeforeFollowUp ==
  \A j \in DOMAIN units :
    (FollowUp(j) /\ units[j].st = "running")
      => LET c == units[j].chat
         IN /\ \E i \in 1..(j - 1) : Resolved(i, c)
            /\ users[c].pendingStep # NoStr
                 => \E i, k \in 1..(j - 1) :
                      /\ i < k /\ Resolved(i, c) /\ Asked(k, c)
                      /\ units[k].op.step = users[c].pendingStep

\* The forced check after a valid text message runs; the step the message
\* answered is cleared.
C21_Witness ==
  \E j \in DOMAIN units :
    /\ FollowUp(j) /\ units[j].st = "running"
    /\ users[units[j].chat].pendingStep = NoStr
    /\ \E i \in 1..(j - 1) :
         /\ Resolved(i, units[j].chat)
         /\ units[i].src = "text" /\ units[i].op.assumed = "groups_remove"


(***************************************************************************)
(* The records of the store.                                               *)
(***************************************************************************)
\* Unit i is called in this step.
Called(i) ==
  /\ i \in DOMAIN units'
  /\ units'[i].ran
  /\ i \in DOMAIN units => ~units[i].ran

\* C22 as stated: a chat whose command or message is being handled has a
\* record.
C22_RecordOnFirstInteraction ==
  \A h \in handlers : h.chat \in DOMAIN users

\* C22: a record appears only when a unit of its chat is called, as the
\* record of ensureUser (not watching, no groups, nothing else set) with the
\* assignments of that unit's mutation, if it is one; and a record that
\* exists is in every later state.
C22_RecordCreatedByUnit ==
  [][/\ DOMAIN users \subseteq DOMAIN users'
     /\ \A c \in DOMAIN users' \ DOMAIN users :
          /\ ~users'[c].watching
          /\ \E i \in DOMAIN units' :
               /\ Called(i) /\ units'[i].chat = c
               /\ users'[c] = IF units'[i].kind = "mut"
                              THEN ApplyOp(NewUser, units'[i].op)
                              ELSE NewUser]_vars

\* The forced check of /check runs for a chat the store did not know: its
\* record is the one ensureUser creates.
C22_Witness ==
  \E i \in DOMAIN units :
    /\ units[i].kind = "check" /\ units[i].st = "running"
    /\ users[units[i].chat] = NewUser


(***************************************************************************)
(* The store file.                                                         *)
(***************************************************************************)
\* C23: whatever step of a save the process is killed at, the store file
\* holds what it held before the save, or the complete text of the store
\* being saved.
C23_SaveAtomic ==
  [][\/ disk'.file = disk.file
     \/ \E c \in Chats, op \in StoreOps :
          disk'.file = Written(stringify(normalizeStateShape(Mutated(users, c, op))))]_vars

\* The process was killed while the temporary file was half written; the
\* store file is the complete document of an earlier save.
C23_Witness ==
  /\ sched.st = "killed"
  /\ disk.tmp.exists /\ Len(disk.tmp.doc) >= 3 /\ ~JSONparse(disk.tmp.doc).ok
  /\ disk.file.exists
  /\ disk.file.doc = stringify(readStateFromDisk(disk.file))
  /\ 2 \in DOMAIN readStateFromDisk(disk.file)


\* main reads the store in this step.
Loading == sched.st # "timer" /\ sched'.st = "timer"

\* Record u, loaded from an entry of the document, has the default wherever
\* the entry's member is of another type than the record's; watching is
\* looked at when watchingToo.
LoadsDefaults(entry, u, watchingToo) ==
  LET j == entry.v
      isObj == entry.ty = "object"
  IN /\ (watchingToo /\ ~(isObj /\ j.watching.ty = "boolean")) => ~u.watching
     /\ ~(isObj /\ j.lastLoeCheckedAt.ty = "string") => u.lastLoeCheckedAt = NoTime
     /\ ~(isObj /\ j.groups.ty = "array") => u.groups = None
     /\ ~(isObj /\ j.pendingStep.ty = "string"
            /\ j.pendingStep.v \in {"groups", "groups_add", "groups_remove"})
          => u.pendingStep = NoStr
     /\ ~isObj => u = NewUser

LoadTolerant(watchingToo) ==
  Loading =>
    LET parsed == JSONparse(disk.file.doc)
    IN IF ~disk.file.exists \/ ~parsed.ok \/ parsed.users = None
       THEN users' = <<>>
       ELSE /\ DOMAIN users' = DOMAIN parsed.users[1]
            /\ \A c \in DOMAIN users' :
                 LoadsDefaults(parsed.users[1][c], users'[c], watchingToo)

\* C24: loading gives the empty store for a missing file, a text that does
\* not parse and a document without a users object, and gives every member
\* of another type its default: no timestamp, no groups, no pending step,
\* and watching = false for a value that is not a boolean.
C24_LoadSafeDefaults == [][LoadTolerant(TRUE)]_vars


\* C25: the store in memory, saved and loaded again, is the same store: the
\* same chats with the same value of every field.
C25_RoundTrip ==
  readStateFromDisk(Written(stringify(normalizeStateShape(users)))) = users

\* A store with groups, a baseline, the time of a notification and the
\* status of tomorrow's schedule.
C25_Witness ==
  \E c \in DOMAIN users :
    /\ GroupsOf(users[c]) # <<>>
    /\ users[c].lastLoeWatchedText # None
    /\ users[c].lastLoeNotifiedAt # NoTime
    /\ users[c].lastLoeTomorrowStatus # NoStr


(***************************************************************************)
(* Parsing a message.                                                      *)
(***************************************************************************)
\* The id written at item i of the message, and whether it is one of the
\* twelve.
IdAt(msg, i) == <<msg[i].maj, msg[i].min>>
ValidAt(msg, i) == msg[i].sep \in {".", ","} /\ IdAt(msg, i) \in Range(POSSIBLE_GROUPS)
FirstAt(msg, g) ==
  CHOOSE i \in DOMAIN msg :
    /\ ValidAt(msg, i) /\ IdAt(msg, i) = g
    /\ \A j \in 1..(i - 1) : ~(ValidAt(msg, j) /\ IdAt(msg, j) = g)

\* list holds exactly the valid ids of msg, each once, in the order in
\* which they first occur.
ParsesTo(msg, list) ==
  /\ Range(list) = {IdAt(msg, i) : i \in {j \in DOMAIN msg : ValidAt(msg, j)}}
  /\ \A i, j \in DOMAIN list :
       i < j => list[i] # list[j] /\ FirstAt(msg, list[i]) < FirstAt(msg, list[j])

\* C26: the list a text message is parsed to holds the valid ids of the
\* message in the order of their first occurrence, each once, with ',' and
\* '.' read alike, and no id outside the twelve: "1,1; 3.2" gives
\* [1.1, 3.2], and "9.9" gives the empty list, for which nothing is queued.
C26_ParseValidIdsInOrder ==
  [][\A c \in Callers, msg \in DialogMessages :
       TextMsg(c, msg) =>
         LET n == Len(units')
             none == \A i \in DOMAIN msg : ~ValidAt(msg, i)
         IN /\ none <=> units' = units
            /\ ~none => /\ n = Len(units) + 1
                        /\ ParsesTo(msg, units'[n].op.list)
            /\ msg = <<Tok(1, 1, ",", FALSE), Word, Tok(3, 2, ".", FALSE)>>
                 => units'[n].op.list = <<G11, <<3, 2>>>>
            /\ msg = <<Tok(9, 9, ".", FALSE)>> => units' = units]_vars

\* The lists of "1,1; 3.2" and of "1,1 and 02.1 1.1" were queued.
C26_Witness ==
  /\ \E i \in DOMAIN units :
       units[i].src = "text" /\ units[i].op.list = <<G11, <<3, 2>>>>
  /\ \E i \in DOMAIN units :
       units[i].src = "text" /\ units[i].op.list = <<G11, G21>>


(***************************************************************************)
(* The time of the last notification.                                      *)
(***************************************************************************)
DeliveredOf(rec, kinds) ==
  \E k \in DOMAIN rec.msgs : rec.msgs[k].kind \in kinds /\ rec.msgs[k].ok

\* C27: a check changes lastNotifiedAt of a day only when its notification
\* for that day was delivered; when the send fails the value stays.
C27_NotifiedAtOnlyOnDelivery ==
  Last.n = 1 =>
    /\ Last.post.lastLoeNotifiedAt # Last.pre.lastLoeNotifiedAt
         => DeliveredOf(Last, TodayKinds)
    /\ Last.post.lastLoeTomorrowNotifiedAt # Last.pre.lastLoeTomorrowNotifiedAt
         => DeliveredOf(Last, TomorrowKinds)


(***************************************************************************)
(* The two days of one check.                                              *)
(***************************************************************************)
TodayFields(u) ==
  <<u.lastLoeCheckedAt, u.lastLoeNotifiedAt, u.lastLoeWatchedText, u.lastLoeError>>

TomorrowFields(u) ==
  <<u.lastLoeTomorrowCheckedAt, u.lastLoeTomorrowNotifiedAt,
    u.lastLoeTomorrowWatchedText, u.lastLoeTomorrowStatus, u.lastLoeTomorrowError>>

\* The part of the call of CheckStep(i, up, plan) that evaluates today.
TodayPart(i, up, plan) ==
  LET c == CheckedChat(i)
  IN RunOps(TodayOps(users[c], up.today[1], units[i].kind = "check", now),
            Acc(users[c], disk, <<>>, 0, 0, NoStr), plan, users, c)

\* C28: in a check that evaluates both days, today's fields are left as the
\* evaluation of today set them, whatever the evaluation of tomorrow does
\* and however it fails; and when the check fails on today (or on the
\* fetch), the fields of tomorrow are left as they were.
C28_DayContextsIndependent ==
  [][\A i \in DOMAIN units, up \in Upstreams, plan \in FaultPlans :
       (/\ CheckStep(i, up, plan) /\ RecordLast(i, up, plan)
        /\ users[CheckedChat(i)].watching \/ units[i].kind = "check"
        /\ GroupsOf(users[CheckedChat(i)]) # <<>>)
         => LET u == users[CheckedChat(i)]
                post == lastCheck'[CheckedChat(i)].post
            IN IF FetchError(up) # NoStr
               THEN TomorrowFields(post) = TomorrowFields(u)
               ELSE IF TodayPart(i, up, plan).err # NoStr
               THEN TomorrowFields(post) = TomorrowFields(u)
               ELSE TodayFields(post) = TodayFields(TodayPart(i, up, plan).u)]_vars


(***************************************************************************)
(* Today's schedule against the stored baseline.                           *)
(***************************************************************************)
\* The subgroup lines of a stored baseline: what follows its empty line.
StoredLines(b) ==
  LET blanks == {k \in DOMAIN b : b[k].m = "blank"}
      first == CHOOSE k \in blanks : \A j \in blanks : k <= j
  IN IF blanks = {} THEN b ELSE SubSeq(b, first + 1, Len(b))

\* A background check that fetched today's schedule for a record with a
\* stored baseline.
AgainstBaseline(rec) ==
  /\ Background(rec) /\ rec.pre.watching /\ GroupsOf(rec.pre) # <<>>
  /\ Truthy(rec.pre.lastLoeWatchedText)
  /\ rec.up.ok /\ rec.up.today # None

TrackedLines(rec) == SelectedLines(GroupsOf(rec.pre), rec.up.today[1], NotFoundToday)
TrackedDiffers(rec) == StoredLines(rec.pre.lastLoeWatchedText[1]) # TrackedLines(rec)
OtherDay(rec) ==
  rec.pre.lastLoeNotifiedAt # NoTime /\ rec.pre.lastLoeNotifiedAt # rec.day

\* The check sent one notification about today and stored the text it sent
\* as the baseline, with the time of the check as lastNotifiedAt.
NotifiedToday(rec) ==
  LET sent == MsgsOfKind(rec, TodayKinds)
  IN /\ Len(sent) = 1 /\ sent[1].ok
     /\ rec.post.lastLoeWatchedText = Some(sent[1].text)
     /\ StoredLines(sent[1].text) = TrackedLines(rec)
     /\ rec.post.lastLoeNotifiedAt = rec.day

\* C29: a background check against a stored baseline notifies and updates
\* the baseline and lastNotifiedAt whenever the tracked subgroup lines
\* differ from those of the baseline, or the last notification was on
\* another calendar day than the check.
C29_TodayChangeOrRollover ==
  (AgainstBaseline(Last) /\ (TrackedDiffers(Last) \/ OtherDay(Last)))
    => NotifiedToday(Last)


\* C30: a background check against a stored baseline, with the tracked
\* subgroup lines equal to those of the baseline and the last notification
\* on the day of the check, sends no notification about today and leaves
\* lastWatchedText, lastNotifiedAt and lastError as they were: of today's
\* fields only lastCheckedAt changes.
C30_UnchangedTodayOnlyCheckedAt ==
  ( /\ AgainstBaseline(Last) /\ ~TrackedDiffers(Last)
    /\ Last.pre.lastLoeNotifiedAt = Last.day )
  => /\ MsgsOfKind(Last, TodayKinds) = <<>>
     /\ Last.post.lastLoeWatchedText = Last.pre.lastLoeWatchedText
     /\ Last.post.lastLoeNotifiedAt = Last.pre.lastLoeNotifiedAt
     /\ Last.post.lastLoeError = Last.pre.lastLoeError
     /\ Last.post.lastLoeCheckedAt = Last.day


(***************************************************************************)
(* Tomorrow's schedule.                                                    *)
(***************************************************************************)
\* A check that fetched today's schedule for a record with groups and went
\* on to tomorrow's.
ReachedTomorrow(rec) ==
  /\ rec.n = 1 /\ (rec.force \/ rec.pre.watching)
  /\ GroupsOf(rec.pre) # <<>>
  /\ rec.up.ok /\ rec.up.today # None
  /\ rec.fault = NoStr

\* C31: a check that finds no "Tomorrow" item sets the status to missing,
\* writes the store, sends nothing about tomorrow, records no error and
\* leaves the tomorrow baseline as it was.
C31_TomorrowMissing ==
  (ReachedTomorrow(Last) /\ Last.up.tomorrow = None)
    => /\ Last.post.lastLoeTomorrowStatus = "missing"
       /\ disk.exists /\ disk.doc[1].lastLoeTomorrowStatus = "missing"
       /\ disk.doc[1] = NormalizeUser(Last.post)
       /\ KindsOf(Last) \cap TomorrowKinds = {}
       /\ Last.post.lastLoeTomorrowError = NoStr /\ Last.post.lastLoeError = NoStr
       /\ Last.post.lastLoeTomorrowWatchedText = Last.pre.lastLoeTomorrowWatchedText

\* Tomorrow's schedule was published, stored as the baseline, and is gone
\* at the next check: the status is missing and the baseline is kept.
C31_Witness ==
  /\ ReachedTomorrow(Last) /\ Last.up.tomorrow = None
  /\ Last.pre.lastLoeTomorrowStatus = "present"
  /\ Last.post.lastLoeTomorrowStatus = "missing"
  /\ Truthy(Last.post.lastLoeTomorrowWatchedText)


\* The text checkOneChat renders of tomorrow's schedule for the record.
RenderedTomorrow(rec) ==
  WatchedText(HeaderLines(rec.up.tomorrow[1]),
              SelectedLines(GroupsOf(rec.pre), rec.up.tomorrow[1], NotFoundTomorrow))

\* Tomorrow's schedule is published without a line for any of the groups.
NoLineForGroups(rec) ==
  /\ ReachedTomorrow(rec) /\ rec.up.tomorrow # None
  /\ ~HasLineFor(rec.up.tomorrow, GroupsOf(rec.pre))

\* C32: when tomorrow's schedule is published without a line for any of the
\* subscriber's groups, the check stores the rendered text as the tomorrow
\* baseline and sends nothing about tomorrow, whatever the status was.
C32_TomorrowWithoutGroupLines ==
  NoLineForGroups(Last)
    => /\ Last.post.lastLoeTomorrowWatchedText = Some(RenderedTomorrow(Last))
       /\ disk.doc[1].lastLoeTomorrowWatchedText = Some(RenderedTomorrow(Last))
       /\ KindsOf(Last) \cap TomorrowKinds = {}
       /\ Last.post.lastLoeTomorrowNotifiedAt = Last.pre.lastLoeTomorrowNotifiedAt

\* Such a check replaced the baseline of a schedule that had been announced.
C32_Witness ==
  /\ NoLineForGroups(Last)
  /\ Last.pre.lastLoeTomorrowStatus = "present"
  /\ Last.pre.lastLoeTomorrowNotifiedAt # NoTime
  /\ Last.pre.lastLoeTomorrowWatchedText # Last.post.lastLoeTomorrowWatchedText


\* Tomorrow's schedule, already recorded as present, is published with a
\* line for one of the groups.
PresentAgain(rec) ==
  /\ ReachedTomorrow(rec) /\ rec.pre.lastLoeTomorrowStatus = "present"
  /\ HasLineFor(rec.up.tomorrow, GroupsOf(rec.pre))
  /\ rec.pre.lastLoeTomorrowWatchedText # None

TomorrowLinesDiffer(rec) ==
  StoredLines(rec.pre.lastLoeTomorrowWatchedText[1])
    # SelectedLines(GroupsOf(rec.pre), rec.up.tomorrow[1], NotFoundTomorrow)

TomorrowHeadersDiffer(rec) ==
  HeaderLines(rec.pre.lastLoeTomorrowWatchedText[1]) # HeaderLines(rec.up.tomorrow[1])

\* C33: with the status already present, "tomorrow's schedule changed" is
\* sent only if the subgroup lines differ from those of the baseline and
\* the header lines differ from those of the baseline; with identical
\* header lines a change of the subgroup lines sends nothing about tomorrow
\* and leaves the baseline.
C33_TomorrowChangedNeedsHeader ==
  PresentAgain(Last)
    => /\ "tomorrow_changed" \in KindsOf(Last)
            => TomorrowLinesDiffer(Last) /\ TomorrowHeadersDiffer(Last)
       /\ (TomorrowLinesDiffer(Last) /\ ~TomorrowHeadersDiffer(Last))
            => /\ KindsOf(Last) \cap TomorrowKinds = {}
               /\ Last.post.lastLoeTomorrowWatchedText
                    = Last.pre.lastLoeTomorrowWatchedText


(***************************************************************************)
(* Commands with a list.                                                   *)
(***************************************************************************)
\* C34: /add_group and /remove_group followed by a list with a valid id
\* queue the union or the difference with the ids of the list; when it is
\* applied no step is pending any longer, and no step of these commands
\* ever sets a pending step.  A list without a valid id queues nothing and
\* leaves the store and its file as they are.
C34_InlineListApplied ==
  [][/\ \A c \in Callers, type \in {"add", "remove"}, tail \in InlineTails :
          EditCmd(c, type, tail) =>
            IF \A k \in DOMAIN tail : ~ValidAt(tail, k)
            THEN users' = users /\ units' = units /\ disk' = disk
            ELSE LET un == units'[Len(units')]
                 IN /\ Len(units') = Len(units) + 1
                    /\ un.op.type = type /\ ParsesTo(tail, un.op.list)
     /\ \A i \in DOMAIN units' :
          (Applied(i) /\ units'[i].src = "cmd")
            => LET un == units'[i]
                   step == IF un.op.type = "add" THEN "groups_add" ELSE "groups_remove"
               IN /\ users'[un.chat].groups
                       = Some(Expected(step, GroupsBefore(un.chat), un.op.list))
                  /\ users'[un.chat].pendingStep = NoStr
     /\ \A c \in DOMAIN users' :
          users'[c].pendingStep # NoStr
            => c \in DOMAIN users /\ users[c].pendingStep = users'[c].pendingStep
     /\ \A h \in handlers :
          (h.kind = "invalid" /\ Reply(h)) => users' = users /\ disk' = disk]_vars

\* "/add_group 1,1 3.2" was applied to the groups <<1.1>> of a chat that
\* had been asked for a list; "/remove_group 9.9" is being answered.
C34_Witness ==
  /\ \E i \in DOMAIN units :
       /\ units[i].src = "cmd" /\ units[i].op.type = "add" /\ units[i].ran
       /\ units[i].op.list = <<G11, <<3, 2>>>>
       /\ users[units[i].chat].groups = Some(<<G11, <<3, 2>>>>)
       /\ users[units[i].chat].pendingStep = NoStr
  /\ \E i \in DOMAIN units :
       units[i].src = "cmd" /\ units[i].op.type = "remove" /\ units[i].ran


(***************************************************************************)
(* Tomorrow's lines after a silent baseline.                               *)
(***************************************************************************)
\* The stored baseline of tomorrow is the one of the branch without data:
\* a "not found" line for every tracked subgroup.
SilentBaseline(rec) ==
  /\ rec.pre.lastLoeTomorrowWatchedText # None
  /\ StoredLines(rec.pre.lastLoeTomorrowWatchedText[1])
       = [i \in DOMAIN GroupsOf(rec.pre) |-> Grp(GroupsOf(rec.pre)[i], NotFoundTomorrow)]

FindsTomorrowLines(rec) ==
  ReachedTomorrow(rec) /\ rec.up.tomorrow # None /\ HasLineFor(rec.up.tomorrow, GroupsOf(rec.pre))

\* C35: a check that finds a line of a tracked subgroup in tomorrow's
\* schedule, for a record whose tomorrow baseline was stored silently by an
\* earlier check that found none, sends a tomorrow notification.
C35_LinesAfterSilentBaseline ==
  (FindsTomorrowLines(Last) /\ SilentBaseline(Last))
    => KindsOf(Last) \cap TomorrowKinds # {}

\* The check before found tomorrow published without a line of 1.1 and sent
\* nothing; this one finds the line and sends "changed".
C35_Witness ==
  /\ NoLineForGroups(Prev) /\ KindsOf(Prev) \cap TomorrowKinds = {}
  /\ FindsTomorrowLines(Last) /\ SilentBaseline(Last)
  /\ Last.pre.lastLoeTomorrowStatus = "present"
  /\ "tomorrow_changed" \in KindsOf(Last)


(***************************************************************************)
(* The store file when a notification is sent.                             *)
(***************************************************************************)
\* The store file when the k-th step of the try block starts (err is set
\* when an earlier step threw and the k-th is not reached).
BeforeStep(us, file, c, force, up, t, plan, k) ==
  RunOps(SubSeq(TryOps(us[c], up, force, t), 1, k - 1),
         Acc(us[c], file, <<>>, 0, 0, NoStr), plan, us, c)

\* Every send of a schedule notification in the call starts with the text
\* it sends as the baseline, and the time of the call as lastNotifiedAt, of
\* its day context in the store file.
PersistedBeforeSend(us, file, c, force, up, t, plan) ==
  LET ops == TryOps(us[c], up, force, t)
  IN \A k \in DOMAIN ops :
       LET acc == BeforeStep(us, file, c, force, up, t, plan, k)
       IN (ops[k].t = "send" /\ acc.err = NoStr)
            => /\ acc.file.exists
               /\ IF ops[k].kind \in TomorrowKinds
                  THEN /\ acc.file.doc[c].lastLoeTomorrowWatchedText = Some(ops[k].text)
                       /\ acc.file.doc[c].lastLoeTomorrowNotifiedAt = t
                  ELSE /\ acc.file.doc[c].lastLoeWatchedText = Some(ops[k].text)
                       /\ acc.file.doc[c].lastLoeNotifiedAt = t

\* C36: in every check, whichever write or send fails, the send of a today
\* or tomorrow notification starts with the new baseline and lastNotifiedAt
\* of that day context in the store file, also when no store file existed
\* before the check; after the check the file still holds them for every
\* notification whose send was started.
C36_PersistBeforeSend ==
  (Last.n = 1 /\ (Last.force \/ Last.pre.watching) /\ GroupsOf(Last.pre) # <<>>)
    => /\ \A plan \in FaultPlans, file \in {NoFile, FileOf(1 :> Last.pre)} :
            PersistedBeforeSend(1 :> Last.pre, file, 1, Last.force, Last.up,
                                Last.day, plan)
       /\ \A k \in DOMAIN Last.msgs :
            /\ Last.msgs[k].kind \in TodayKinds
                 => /\ disk.doc[1].lastLoeWatchedText = Some(Last.msgs[k].text)
                    /\ disk.doc[1].lastLoeNotifiedAt = Last.day
            /\ Last.msgs[k].kind \in TomorrowKinds
                 => /\ disk.doc[1].lastLoeTomorrowWatchedText = Some(Last.msgs[k].text)
                    /\ disk.doc[1].lastLoeTomorrowNotifiedAt = Last.day

\* A check sent a today and a tomorrow notification that the store file had
\* not held before; the file holds both texts and times.
C36_Witness ==
  /\ Last.n = 1 /\ disk.exists
  /\ \E a, b \in DOMAIN Last.msgs :
       /\ Last.msgs[a].kind \in TodayKinds /\ Last.msgs[a].ok
       /\ Last.msgs[b].kind \in TomorrowKinds /\ Last.msgs[b].ok
       /\ Last.pre.lastLoeWatchedText # Some(Last.msgs[a].text)
       /\ Last.pre.lastLoeTomorrowWatchedText # Some(Last.msgs[b].text)
       /\ disk.doc[1].lastLoeWatchedText = Some(Last.msgs[a].text)
       /\ disk.doc[1].lastLoeTomorrowWatchedText = Some(Last.msgs[b].text)
       /\ disk.doc[1].lastLoeNotifiedAt = Last.day
       /\ disk.doc[1].lastLoeTomorrowNotifiedAt = Last.day


(***************************************************************************)
(* A notification whose send failed.                                       *)
(***************************************************************************)
\* The background check tried to send a notification of one of the kinds
\* and the send failed.
FailedSend(rec, kinds) ==
  /\ rec.n = 1 /\ ~rec.force
  /\ \E k \in DOMAIN rec.msgs : rec.msgs[k].kind \in kinds /\ ~rec.msgs[k].ok

\* The next background check of the chat, on the same day and with the same
\* answer of the fetch.
SameAgain == Last.n = 1 /\ ~Last.force /\ Last.day = Prev.day /\ Last.up = Prev.up

BaselineOf(u, kinds) ==
  IF kinds = TodayKinds THEN u.lastLoeWatchedText ELSE u.lastLoeTomorrowWatchedText

\* C37: after a background check whose send of a today (tomorrow)
\* notification failed, the baseline is the text that was not delivered and
\* lastLoeError holds the failure, and the next background check on that
\* day with the same content sends no today (tomorrow) notification and
\* leaves that baseline alone.
C37_FailedSendNeverAnnounced ==
  \A kinds \in {TodayKinds, TomorrowKinds} :
    (FailedSend(Prev, kinds) /\ SameAgain)
      => /\ \E k \in DOMAIN Prev.msgs :
              /\ Prev.msgs[k].kind \in kinds /\ ~Prev.msgs[k].ok
              /\ BaselineOf(Prev.post, kinds) = Some(Prev.msgs[k].text)
         /\ Prev.post.lastLoeError = "send failed"
         /\ KindsOf(Last) \cap kinds = {}
         /\ BaselineOf(Last.post, kinds) = BaselineOf(Prev.post, kinds)

\* The same for a failed send whose text has two header lines above the
\* subgroup lines.
C37_TwoHeaderLines ==
  \A kinds \in {TodayKinds, TomorrowKinds} :
    (/\ FailedSend(Prev, kinds) /\ SameAgain
     /\ Prev.up.today # Some(TextOneHdr))
      => /\ Prev.post.lastLoeError = "send failed"
         /\ KindsOf(Last) \cap kinds = {}
         /\ BaselineOf(Last.post, kinds) = BaselineOf(Prev.post, kinds)


(***************************************************************************)
(* watching.                                                               *)
(***************************************************************************)
Watches(us, c) == c \in DOMAIN us /\ us[c].watching

PendingPasses == {i \in DOMAIN units : units[i].kind = "pass" /\ ~Settled(units[i].st)}

\* C39: at most one scheduled pass is waiting or running; while the timer
\* of the next pass is armed none is, and otherwise the pending pass is the
\* one the timer queued last.
C39_OneScheduledPass ==
  /\ Cardinality(PendingPasses) <= 1
  /\ sched.st = "timer" => PendingPasses = {}
  /\ sched.st = "queued" => PendingPasses = {sched.unit}

\* A pass has ended, and the pass of the next timer waits behind a forced
\* check that is running.
C39_Witness ==
  \E i, j, k \in DOMAIN units :
    /\ i < j /\ j < k
    /\ units[i].kind = "pass" /\ Settled(units[i].st)
    /\ units[j].kind = "check" /\ units[j].st = "running"
    /\ units[k].kind = "pass" /\ units[k].st = "waiting"


(***************************************************************************)
(* forceCheck and tomorrow's schedule.                                     *)
(***************************************************************************)
\* The last call made again on the record and the answer it was given, with
\* forceCheck = f.
Again(f, plan) ==
  checkOneChat(1 :> Last.pre, FileOf(1 :> Last.pre), 1, f, Last.up, Last.day, plan)

TomorrowMsgs(r) == SelectSeq(r.msgs, LAMBDA msg : msg.kind \in TomorrowKinds)

\* Forced or not, the call sends the same tomorrow notifications and leaves
\* the same tomorrow fields.
SameTomorrow(plan) ==
  /\ TomorrowFields(Again(TRUE, plan).u) = TomorrowFields(Again(FALSE, plan).u)
  /\ TomorrowMsgs(Again(TRUE, plan)) = TomorrowMsgs(Again(FALSE, plan))

\* The record holds tomorrow's schedule as the fetch answers it.
TomorrowUnchanged(rec) ==
  /\ rec.up.ok /\ rec.up.today # None /\ rec.up.tomorrow # None
  /\ rec.pre.lastLoeTomorrowStatus = "present"
  /\ rec.pre.lastLoeTomorrowWatchedText = Some(RenderedTomorrow(rec))

====
